---- MODULE Spec2Model ----
(***************************************************************************)
(* Resilience runtime of the link-in-bio application: the circuit breaker  *)
(* that guards the OpenAI client and the in-memory TTL cache.               *)
(*                                                                         *)
(* Time is the value of Date.now(); one unit of the model's clock stands   *)
(* for an arbitrary fixed number of milliseconds.  A synchronous stretch   *)
(* of JavaScript (everything between two awaits) is one atomic action and  *)
(* reads one value of the clock.                                           *)
(***************************************************************************)
EXTENDS Integers, Sequences, FiniteSets, TLC

\* ------------------------------------------------------------------ bounds
\* Largest value of the clock.
MaxTime == 2
\* Number of execute() calls that invoke their operation in one behaviour.
MaxCalls == 5
\* Number of reset() and open() calls in one behaviour.
MaxAdmin == 1
\* Number of execute() calls awaiting their operation at the same time.
MaxInFlight == 2

\* ------------------------------------------------- circuit breaker: config
\* CircuitBreakerConfig as the unit tests construct it.
failureThreshold == 3
successThreshold == 2
\* resetTimeout and requestTimeout in clock units.
resetTimeout == 1
requestTimeout == 1

\* JavaScript's null in a field of type number | null.
NULL == -1

\* (x || 0) for x : number | null
OrZero(x) == IF x = NULL THEN 0 ELSE x

\* ------------------------------------------------------ cache: config/bounds
\* Largest value of the clock in the cache's behaviours.
CacheMaxTime == 2
\* Number of get() calls in one behaviour.
MaxGets == 2
\* new InMemoryCache(defaultTTL, maxSize): the arguments of the constructor.
DefaultTTLSeconds == 1
maxSize == 2
\* Milliseconds per second (1000 in the source, scaled to the model's clock).
MsPerSec == 2

\* The keys (any string, the empty string among them) and the values the
\* callers use.
Keys == {"", "a", "b"}
Values == {1, 2}
\* The ttl argument of set(): 0 stands for a falsy ttl (undefined or 0); the
\* explicit one is the number the callers pass, the configured default
\* (cacheUserProfile(userId, userData, 300) with the default of 300).
TTLArgs == {0, DefaultTTLSeconds}

VARIABLES
  now,        \* Date.now()
  cb,         \* the CircuitBreaker object (its private fields and this.stats)
  inflight,   \* execute() calls suspended at "await this.withTimeout(...)"
  orphans,    \* operations still pending whose call already timed out
  lastOp,     \* history: the step taken last
  adminOps,   \* history: number of reset() and open() calls made
  invoked,    \* history: number of times execute() invoked its operation
  completed,  \* history: number of invoking calls that left the await
  streak,     \* history: failures recorded since the last non-failure event
  streakBase, \* history: breaker state right after that non-failure event
  hoSucc,     \* history: successes recorded since HALF_OPEN was last entered
  cache,      \* InMemoryCache.cache: the Map's entries in insertion order
  cacheStats, \* InMemoryCache.stats
  cacheOp,    \* history: the step taken last: a get (with its key), a clear,
              \* or another one
  cacheRet,   \* history: what the last operation returned, if it was a get
  lastSet,    \* history: per key, the set() not yet deleted, cleared,
              \* evicted or overwritten
  setCall,    \* history: the key and ttl argument of the set() that was the
              \* last step and the key it evicted; NoCall after other steps
  maxRequests, \* the maxRequests argument the callers of check() pass
  store,      \* RateLimiter.store: per identifier, its entry or NoEntry
  rlOp,       \* history: the rate limiter step taken last and its identifier
  rlRet,      \* history: what check() returned, if it was the last step
  rlStatus,   \* history: what getStatus() returned, if it was the last step
  win,        \* history: per identifier, the start of its current window
              \* and the number of check() calls made in it
  afterReset, \* history: per identifier, whether its last step was a reset()
              \* or the first check() after one, and whether the identifier
              \* was blocked when reset() was called
  recent,     \* history: per identifier, the successful check() calls of each
              \* of the last windowMs + 1 instants, since its last reset()
  ipLoginAttempts, \* the module's Map of login attempts per IP address
  ipRet,      \* history: what checkIpRateLimit() returned, if it was the
              \* last step
  acct,       \* the persisted failedLoginAttempts and lockoutUntil of the
              \* registered account
  pending,    \* per caller, the lockout call suspended after its findUnique,
              \* with the user record it read
  lkRet,      \* history: the lockout call that returned in the last step,
              \* the record it had read and the status it returned
  expiredLock, \* history: the lockoutDuration of the last lockout that
              \* checkAccountLockout() found expired and reset, else 0
  lockedFor,  \* history: the lockoutDuration of the lockout now persisted,
              \* 0 when lockoutUntil is null
  sess,       \* per login session, the position of its authorize() call and
              \* the credentials and user record it holds
  handlers,   \* ShutdownManager.handlers
  isShuttingDown, \* ShutdownManager.isShuttingDown
  listening,  \* whether setup() has installed the process.on listeners
  sdPc,       \* where handleShutdown() is: "idle" (not called), "running"
              \* (awaiting the race of a handler), "flushing" (awaiting
              \* flushLogs) or "exited"
  loopArr,    \* the array executeHandlers() iterates
  aliased,    \* whether this.handlers still is that array
  idx,        \* the position in it of the handler awaited
  startAt,    \* when that handler was started
  results,    \* executeHandlers()'s results
  exitCode,   \* the argument of the first process.exit()
  signal,     \* the signal executeHandlers() was called with
  dbPc,       \* the SIGINT/SIGTERM listener of the database module: "idle",
              \* or "disconnecting" while it awaits disconnectDatabase()
  started,    \* history: the handlers invoked, in order
  flushed,    \* history: "no", or how flushLogs() ended: "ok", "failed"
  sdOp,       \* history: the shutdown step taken last, and its signal
  wrapRet,    \* history: the last call of a shutdown-aware wrapper
  logContext, \* Logger.context of the logger in use
  emitted,    \* the object handed to baseLogger by the last log call
  logCall,    \* history: that call: the context it ran with and its data
  authRet     \* history: the authorize() call that ended in the last step:
              \* its credentials, its outcome, the status its
              \* recordFailedLoginAttempt() returned, and the persisted
              \* record before the step

cbVars == <<cb, inflight, orphans, lastOp, adminOps, invoked, completed,
            streak, streakBase, hoSucc>>

cacheVars == <<cache, cacheStats, cacheOp, cacheRet, lastSet, setCall>>

rlVars == <<maxRequests, store, rlOp, rlRet, rlStatus, win, afterReset, recent,
            ipLoginAttempts, ipRet>>

lkVars == <<acct, pending, lkRet, lockedFor, expiredLock>>

authVars == <<sess, authRet>>

wrapVars == <<wrapRet>>

logVars == <<logContext, emitted, logCall>>

sdVars == <<handlers, isShuttingDown, listening, sdPc, loopArr, aliased, idx,
            startAt, results, exitCode, signal, dbPc, started, flushed,
            sdOp>>

\* what the steps of one component leave unchanged: the other components
cbFrame == <<cacheVars, rlVars, lkVars, authVars, sdVars, wrapVars, logVars>>

cacheFrame == <<cbVars, rlVars, lkVars, authVars, sdVars, wrapVars, logVars>>

rlFrame == <<cbVars, cacheVars, lkVars, authVars, sdVars, wrapVars, logVars>>

lkFrame == <<cbVars, cacheVars, rlVars, authVars, sdVars, wrapVars, logVars>>

authFrame == <<cbVars, cacheVars, rlVars, pending, lkRet, sdVars, wrapVars, logVars>>

sdFrame == <<cbVars, cacheVars, rlVars, lkVars, authVars, wrapVars, logVars>>

logFrame == <<now, cbVars, cacheVars, rlVars, lkVars, authVars, sdVars,
             wrapVars>>

wrapFrame == <<now, cbVars, cacheVars, rlVars, lkVars, authVars, sdVars, logVars>>

\* --------------------------------------------- circuit breaker: the object

\* constructor
newCircuitBreaker ==
  [ state |-> "CLOSED",
    failureCount |-> 0,
    successCount |-> 0,
    lastFailureTime |-> NULL,
    lastSuccessTime |-> NULL,
    nextAttemptTime |-> NULL,
    stats |-> [ state |-> "CLOSED",
                failureCount |-> 0,
                successCount |-> 0,
                lastFailureTime |-> NULL,
                lastSuccessTime |-> NULL,
                totalRequests |-> 0,
                totalFailures |-> 0,
                totalSuccesses |-> 0 ] ]

transitionToOpen_NoCountReset(b, t) ==
  [b EXCEPT !.state = "OPEN", !.nextAttemptTime = t + resetTimeout]

transitionToOpen(b, t) ==
  [b EXCEPT !.state = "OPEN",
            !.nextAttemptTime = t + resetTimeout,
            !.successCount = 0]

transitionToClosed_KeepsAttemptTime(b) ==
  [b EXCEPT !.state = "CLOSED", !.failureCount = 0, !.successCount = 0]

transitionToClosed(b) ==
  [b EXCEPT !.state = "CLOSED",
            !.failureCount = 0,
            !.successCount = 0,
            !.nextAttemptTime = NULL]

transitionToHalfOpen(b) ==
  [b EXCEPT !.state = "HALF_OPEN", !.successCount = 0]

updateStats_TotalsFromCounts(b) ==
  [b EXCEPT !.stats =
      [ state |-> b.state,
        failureCount |-> b.failureCount,
        successCount |-> b.successCount,
        lastFailureTime |-> b.lastFailureTime,
        lastSuccessTime |-> b.lastSuccessTime,
        totalRequests |-> b.stats.totalRequests,
        totalFailures |-> b.failureCount,
        totalSuccesses |-> b.stats.totalSuccesses ] ]

updateStats(b) ==
  [b EXCEPT !.stats =
      [ state |-> b.state,
        failureCount |-> b.failureCount,
        successCount |-> b.successCount,
        lastFailureTime |-> b.lastFailureTime,
        lastSuccessTime |-> b.lastSuccessTime,
        totalRequests |-> b.stats.totalRequests,
        totalFailures |-> b.stats.totalFailures,
        totalSuccesses |-> b.stats.totalSuccesses ] ]

onSuccess_KeepsFailureCount(b, t) ==
  LET b1 == [b EXCEPT !.successCount = @ + 1,
                      !.lastSuccessTime = t,
                      !.stats.totalSuccesses = @ + 1]
      b2 == IF b1.state = "HALF_OPEN" /\ b1.successCount >= successThreshold
            THEN transitionToClosed(b1)
            ELSE b1
  IN updateStats(b2)

onSuccess(b, t) ==
  LET b1 == [b EXCEPT !.failureCount = 0,
                      !.successCount = @ + 1,
                      !.lastSuccessTime = t,
                      !.stats.totalSuccesses = @ + 1]
      b2 == IF b1.state = "HALF_OPEN" /\ b1.successCount >= successThreshold
            THEN transitionToClosed(b1)
            ELSE b1
  IN updateStats(b2)

onFailure_StrictThreshold(b, t) ==
  LET b1 == [b EXCEPT !.failureCount = @ + 1,
                      !.lastFailureTime = t,
                      !.stats.totalFailures = @ + 1]
      b2 == IF b1.state = "CLOSED"
            THEN IF b1.failureCount > failureThreshold
                 THEN transitionToOpen(b1, t)
                 ELSE b1
            ELSE IF b1.state = "HALF_OPEN"
                 THEN transitionToOpen(b1, t)
                 ELSE b1
  IN updateStats(b2)

onFailure(b, t) ==
  LET b1 == [b EXCEPT !.failureCount = @ + 1,
                      !.lastFailureTime = t,
                      !.stats.totalFailures = @ + 1]
      b2 == IF b1.state = "CLOSED"
            THEN IF b1.failureCount >= failureThreshold
                 THEN transitionToOpen(b1, t)
                 ELSE b1
            ELSE IF b1.state = "HALF_OPEN"
                 THEN transitionToOpen(b1, t)
                 ELSE b1
  IN updateStats(b2)

getStats(b) == b.stats

getState(b) == b.state

reset(b) == transitionToClosed(b)

open(b, t) == transitionToOpen(b, t)

\* execute(): the fail-fast test of an OPEN breaker
executeRejects_Inverted(b, t) ==
  b.state = "OPEN" /\ t > OrZero(b.nextAttemptTime)

executeRejects(b, t) ==
  b.state = "OPEN" /\ t < OrZero(b.nextAttemptTime)

\* execute(): from the OPEN test up to the call of withTimeout, when the call
\* is not rejected
executeEnter_NoHalfOpen(b) ==
  [b EXCEPT !.stats.totalRequests = @ + 1]

executeEnter(b) ==
  LET b1 == IF b.state = "OPEN" THEN transitionToHalfOpen(b) ELSE b
  IN [b1 EXCEPT !.stats.totalRequests = @ + 1]

\* withTimeout(): Promise.race is settled by the timer; the settlement of
\* fn() that arrives later finds the race decided and runs no continuation
\* of execute()
lateSettle_RunsOnSuccess(b, t) == onSuccess(b, t)

lateSettle(b, t) == b

\* withTimeout(): the timer of a call started at t0 may have fired at t
timerDue(t0, t) == t >= t0 + requestTimeout

RemoveAt(s, i) == SubSeq(s, 1, i - 1) \o SubSeq(s, i + 1, Len(s))

\* ------------------------------------------------ circuit breaker: actions

InitCB ==
  /\ cb = newCircuitBreaker
  /\ inflight = << >>
  /\ orphans = 0
  /\ lastOp = "init"
  /\ adminOps = 0
  /\ invoked = 0
  /\ completed = 0
  /\ streak = 0
  /\ streakBase = "CLOSED"
  /\ hoSucc = 0

\* execute(fn) up to its await: rejected at once, or fn is invoked (fn sees
\* the breaker as execute() left it) and the call is suspended
Execute ==
  /\ invoked < MaxCalls
  /\ Len(inflight) < MaxInFlight
  /\ IF executeRejects(cb, now)
     THEN /\ lastOp' = "rejected"
          /\ UNCHANGED <<cb, inflight, invoked, streak, streakBase, hoSucc>>
     ELSE /\ cb' = executeEnter(cb)
          /\ inflight' = Append(inflight,
                                [startedAt |-> now, seen |-> cb'.state])
          /\ invoked' = invoked + 1
          /\ lastOp' = "started"
          /\ IF cb'.state # cb.state
             THEN streak' = 0 /\ streakBase' = cb'.state /\ hoSucc' = 0
             ELSE UNCHANGED <<streak, streakBase, hoSucc>>
  /\ UNCHANGED <<now, orphans, completed, adminOps>>
  /\ UNCHANGED cbFrame

\* fn() resolves before the timer fires: the try branch of execute()
Resolve ==
  \E i \in 1..Len(inflight) :
    /\ cb' = onSuccess(cb, now)
    /\ inflight' = RemoveAt(inflight, i)
    /\ completed' = completed + 1
    /\ lastOp' = "success"
    /\ streak' = 0
    /\ streakBase' = cb'.state
    /\ hoSucc' = IF cb.state = "HALF_OPEN" THEN hoSucc + 1 ELSE hoSucc
    /\ UNCHANGED <<now, orphans, adminOps, invoked>>
    /\ UNCHANGED cbFrame

\* fn() rejects before the timer fires: the catch branch of execute()
Reject ==
  \E i \in 1..Len(inflight) :
    /\ cb' = onFailure(cb, now)
    /\ inflight' = RemoveAt(inflight, i)
    /\ completed' = completed + 1
    /\ lastOp' = "failure"
    /\ streak' = streak + 1
    /\ UNCHANGED <<now, orphans, adminOps, invoked, streakBase, hoSucc>>
    /\ UNCHANGED cbFrame

\* the timer fires first: 'Request timeout' reaches the catch branch
Timeout ==
  \E i \in 1..Len(inflight) :
    /\ timerDue(inflight[i].startedAt, now)
    /\ cb' = onFailure(cb, now)
    /\ inflight' = RemoveAt(inflight, i)
    /\ orphans' = orphans + 1
    /\ completed' = completed + 1
    /\ lastOp' = "timeout"
    /\ streak' = streak + 1
    /\ UNCHANGED <<now, adminOps, invoked, streakBase, hoSucc>>
    /\ UNCHANGED cbFrame

\* the operation of a timed-out call resolves or rejects at last
LateSettle ==
  /\ orphans > 0
  /\ orphans' = orphans - 1
  /\ cb' = lateSettle(cb, now)
  /\ lastOp' = "late"
  /\ UNCHANGED <<now, inflight, adminOps, invoked, completed,
                 streak, streakBase, hoSucc>>
  /\ UNCHANGED cbFrame

Reset ==
  /\ adminOps < MaxAdmin
  /\ adminOps' = adminOps + 1
  /\ cb' = reset(cb)
  /\ lastOp' = "reset"
  /\ streak' = 0
  /\ streakBase' = cb'.state
  /\ UNCHANGED <<now, inflight, orphans, invoked, completed, hoSucc>>
  /\ UNCHANGED cbFrame

Open ==
  /\ adminOps < MaxAdmin
  /\ adminOps' = adminOps + 1
  /\ cb' = open(cb, now)
  /\ lastOp' = "open"
  /\ streak' = 0
  /\ streakBase' = cb'.state
  /\ UNCHANGED <<now, inflight, orphans, invoked, completed, hoSucc>>
  /\ UNCHANGED cbFrame

Tick ==
  /\ now < MaxTime
  /\ now' = now + 1
  /\ lastOp' = "tick"
  /\ UNCHANGED <<cb, inflight, orphans, adminOps, invoked, completed,
                 streak, streakBase, hoSucc>>
  /\ UNCHANGED cbFrame

\* ------------------------------------------------------ cache: the object

\* this.defaultTTL = defaultTTL * 1000
defaultTTL == DefaultTTLSeconds * MsPerSec

\* Map.prototype.has / get / delete / set on the entries in insertion order
MapKeys(c) == {c[i].key : i \in 1..Len(c)}

MapHas(c, k) == k \in MapKeys(c)

MapGet(c, k) == c[CHOOSE i \in 1..Len(c) : c[i].key = k]

MapDelete(c, k) == SelectSeq(c, LAMBDA e : e.key # k)

MapSet(c, k, v, x) ==
  IF MapHas(c, k)
  THEN [i \in 1..Len(c) |->
          IF c[i].key = k THEN [key |-> k, value |-> v, expiresAt |-> x]
          ELSE c[i]]
  ELSE Append(c, [key |-> k, value |-> v, expiresAt |-> x])

\* if (oldestKey): a string is truthy unless it is the empty string
truthy(key) == key # ""

\* evictOldest(): the first entry, in iteration order, of smallest expiresAt
\* becomes oldestKey; it is deleted only if (oldestKey) holds
evictOldest(c) ==
  IF Len(c) = 0 THEN c
  ELSE LET i == CHOOSE j \in 1..Len(c) :
                  /\ \A l \in 1..Len(c) : c[j].expiresAt <= c[l].expiresAt
                  /\ \A l \in 1..(j - 1) : c[l].expiresAt > c[j].expiresAt
       IN IF truthy(c[i].key) THEN MapDelete(c, c[i].key) ELSE c

\* get(key): the map, the stats and the returned value
get_KeepsExpired(c, st, k, t) ==
  IF ~MapHas(c, k)
  THEN [cache |-> c, stats |-> [st EXCEPT !.misses = @ + 1], ret |-> NULL]
  ELSE IF t > MapGet(c, k).expiresAt
       THEN [cache |-> c, stats |-> [st EXCEPT !.misses = @ + 1], ret |-> NULL]
       ELSE [cache |-> c, stats |-> [st EXCEPT !.hits = @ + 1],
             ret |-> MapGet(c, k).value]

get_ExpiredNotCounted(c, st, k, t) ==
  IF ~MapHas(c, k)
  THEN [cache |-> c, stats |-> [st EXCEPT !.misses = @ + 1], ret |-> NULL]
  ELSE IF t > MapGet(c, k).expiresAt
       THEN LET c1 == MapDelete(c, k)
            IN [cache |-> c1, stats |-> [st EXCEPT !.size = Len(c1)],
                ret |-> NULL]
       ELSE [cache |-> c, stats |-> [st EXCEPT !.hits = @ + 1],
             ret |-> MapGet(c, k).value]

get(c, st, k, t) ==
  IF ~MapHas(c, k)
  THEN [cache |-> c, stats |-> [st EXCEPT !.misses = @ + 1], ret |-> NULL]
  ELSE IF t > MapGet(c, k).expiresAt
       THEN LET c1 == MapDelete(c, k)
            IN [cache |-> c1,
                stats |-> [st EXCEPT !.misses = @ + 1, !.size = Len(c1)],
                ret |-> NULL]
       ELSE [cache |-> c, stats |-> [st EXCEPT !.hits = @ + 1],
             ret |-> MapGet(c, k).value]

\* set(key, value, ttl): ttl = 0 stands for a falsy ttl
set_IgnoresTTL(c, st, k, v, ttl, t) ==
  LET expiresAt == t + defaultTTL
      c1 == IF Len(c) >= maxSize /\ ~MapHas(c, k) THEN evictOldest(c) ELSE c
      c2 == MapSet(c1, k, v, expiresAt)
  IN [cache |-> c2, stats |-> [st EXCEPT !.size = Len(c2)]]

set(c, st, k, v, ttl, t) ==
  LET expiresAt == t + (IF ttl # 0 THEN ttl ELSE defaultTTL)
      c1 == IF Len(c) >= maxSize /\ ~MapHas(c, k) THEN evictOldest(c) ELSE c
      c2 == MapSet(c1, k, v, expiresAt)
  IN [cache |-> c2, stats |-> [st EXCEPT !.size = Len(c2)]]

\* delete(key)
delete(c, st, k) ==
  LET c1 == MapDelete(c, k)
  IN [cache |-> c1, stats |-> [st EXCEPT !.size = Len(c1)],
      ret |-> MapHas(c, k)]

\* has(key)
has(c, st, k, t) ==
  IF ~MapHas(c, k)
  THEN [cache |-> c, stats |-> st, ret |-> FALSE]
  ELSE IF t > MapGet(c, k).expiresAt
       THEN LET c1 == MapDelete(c, k)
            IN [cache |-> c1, stats |-> [st EXCEPT !.size = Len(c1)],
                ret |-> FALSE]
       ELSE [cache |-> c, stats |-> st, ret |-> TRUE]

\* clear()
clear(c, st) ==
  [cache |-> << >>, stats |-> [st EXCEPT !.size = 0]]

\* getHitRate(): the quotient hits / total as a fraction, 0 when total = 0
getHitRate(st) ==
  LET total == st.hits + st.misses
  IN IF total > 0 THEN [num |-> st.hits, den |-> total]
     ELSE [num |-> 0, den |-> 1]

\* the callback of startCleanup()'s interval
cleanup(c, st, t) ==
  LET c1 == SelectSeq(c, LAMBDA e : ~(t > e.expiresAt))
  IN [cache |-> c1, stats |-> [st EXCEPT !.size = Len(c1)]]

\* ------------------------------------------------------- cache: actions

NoSet == [value |-> NULL, deadline |-> NULL]

NoCall == [key |-> "-", ttl |-> NULL, evicted |-> "-"]

InitCache ==
  /\ cache = << >>
  /\ cacheStats = [hits |-> 0, misses |-> 0, size |-> 0]
  /\ cacheOp = [op |-> "init", key |-> "-"]
  /\ cacheRet = NULL
  /\ lastSet = [k \in Keys |-> NoSet]
  /\ setCall = NoCall

CacheGet ==
  \E k \in Keys :
    /\ cacheStats.hits + cacheStats.misses < MaxGets
    /\ LET r == get(cache, cacheStats, k, now)
       IN /\ cache' = r.cache
          /\ cacheStats' = r.stats
          /\ cacheRet' = r.ret
    /\ cacheOp' = [op |-> "get", key |-> k]
    /\ setCall' = NoCall
    /\ UNCHANGED <<now, lastSet>>
    /\ UNCHANGED cacheFrame

CacheSet ==
  \E k \in Keys, v \in Values, ttl \in TTLArgs :
    /\ LET r == set(cache, cacheStats, k, v, ttl, now)
       IN /\ cache' = r.cache
          /\ cacheStats' = r.stats
    /\ cacheRet' = NULL
    /\ cacheOp' = [op |-> "other", key |-> "-"]
    /\ lastSet' =
         [j \in Keys |->
            IF j = k
            THEN [value |-> v,
                  deadline |-> now + (IF ttl = 0
                                      THEN DefaultTTLSeconds * MsPerSec
                                      ELSE ttl)]
            ELSE IF MapHas(cache, j) /\ ~MapHas(cache', j) THEN NoSet
            ELSE lastSet[j]]
    /\ setCall' =
         [key |-> k, ttl |-> ttl,
          evicted |-> IF MapKeys(cache) \subseteq MapKeys(cache') THEN "-"
                      ELSE CHOOSE j \in MapKeys(cache) : ~MapHas(cache', j)]
    /\ UNCHANGED now
    /\ UNCHANGED cacheFrame

CacheDelete ==
  \E k \in Keys :
    /\ LET r == delete(cache, cacheStats, k)
       IN /\ cache' = r.cache
          /\ cacheStats' = r.stats
    /\ cacheRet' = NULL
    /\ cacheOp' = [op |-> "other", key |-> "-"]
    /\ lastSet' = [lastSet EXCEPT ![k] = NoSet]
    /\ setCall' = NoCall
    /\ UNCHANGED now
    /\ UNCHANGED cacheFrame

CacheHas ==
  \E k \in Keys :
    /\ LET r == has(cache, cacheStats, k, now)
       IN /\ cache' = r.cache
          /\ cacheStats' = r.stats
    /\ cacheRet' = NULL
    /\ cacheOp' = [op |-> "other", key |-> "-"]
    /\ setCall' = NoCall
    /\ UNCHANGED <<now, lastSet>>
    /\ UNCHANGED cacheFrame

CacheClear ==
  /\ LET r == clear(cache, cacheStats)
     IN /\ cache' = r.cache
        /\ cacheStats' = r.stats
  /\ cacheRet' = NULL
  /\ cacheOp' = [op |-> "clear", key |-> "-"]
  /\ lastSet' = [k \in Keys |-> NoSet]
  /\ setCall' = NoCall
  /\ UNCHANGED now
  /\ UNCHANGED cacheFrame

CacheCleanup ==
  /\ LET r == cleanup(cache, cacheStats, now)
     IN /\ cache' = r.cache
        /\ cacheStats' = r.stats
  /\ cacheRet' = NULL
  /\ cacheOp' = [op |-> "other", key |-> "-"]
  /\ setCall' = NoCall
  /\ UNCHANGED <<now, lastSet>>
  /\ UNCHANGED cacheFrame

CacheTick ==
  /\ now < CacheMaxTime
  /\ now' = now + 1
  /\ cacheOp' = [op |-> "other", key |-> "-"]
  /\ setCall' = NoCall
  /\ UNCHANGED <<cache, cacheStats, cacheRet, lastSet>>
  /\ UNCHANGED cacheFrame

CacheNext ==
  \/ CacheGet
  \/ CacheSet
  \/ CacheDelete
  \/ CacheHas
  \/ CacheClear
  \/ CacheCleanup
  \/ CacheTick


\* ------------------------------------------------ rate limiter: the object

RlMaxTime == 2

MaxLimit == 2

windowMs == 1

Ids == {"a", "b"}

Limits == 0..MaxLimit

NoEntry == [count |-> NULL, resetTime |-> NULL]

NoRet == [success |-> FALSE, remaining |-> NULL, resetTime |-> NULL]

NoWin == [start |-> NULL, calls |-> 0]

\* Math.max(0, x)
Max0(x) == IF x > 0 THEN x ELSE 0

\* "!entry || entry.resetTime < now"
expired(e, t) == e = NoEntry \/ e.resetTime < t

check_WindowClosedAtResetTime(e, m, w, t) ==
  IF e = NoEntry \/ e.resetTime <= t
  THEN LET newEntry == [count |-> 1, resetTime |-> t + w]
       IN [entry |-> newEntry,
           ret |-> [success |-> TRUE, remaining |-> m - 1,
                    resetTime |-> newEntry.resetTime]]
  ELSE LET entry == [e EXCEPT !.count = @ + 1]
       IN [entry |-> entry,
           ret |-> [success |-> entry.count <= m,
                    remaining |-> Max0(m - entry.count),
                    resetTime |-> entry.resetTime]]

check_CountsFromZero(e, m, w, t) ==
  IF expired(e, t)
  THEN LET newEntry == [count |-> 0, resetTime |-> t + w]
       IN [entry |-> newEntry,
           ret |-> [success |-> TRUE, remaining |-> m - 1,
                    resetTime |-> newEntry.resetTime]]
  ELSE LET entry == [e EXCEPT !.count = @ + 1]
       IN [entry |-> entry,
           ret |-> [success |-> entry.count <= m,
                    remaining |-> Max0(m - entry.count),
                    resetTime |-> entry.resetTime]]

\* check(identifier, maxRequests, windowMs) on the identifier's entry e at
\* time t: the entry it stores and the object it returns
check(e, m, w, t) ==
  IF expired(e, t)
  THEN LET newEntry == [count |-> 1, resetTime |-> t + w]
       IN [entry |-> newEntry,
           ret |-> [success |-> TRUE, remaining |-> m - 1,
                    resetTime |-> newEntry.resetTime]]
  ELSE LET entry == [e EXCEPT !.count = @ + 1]
       IN [entry |-> entry,
           ret |-> [success |-> entry.count <= m,
                    remaining |-> Max0(m - entry.count),
                    resetTime |-> entry.resetTime]]

rlReset_ClearsStore(st, id) == [i \in Ids |-> NoEntry]

rlReset_ZeroesCount(st, id) ==
  [st EXCEPT ![id] = IF @ = NoEntry THEN @ ELSE [@ EXCEPT !.count = 0]]

\* reset(identifier): store.delete
rlReset(st, id) == [st EXCEPT ![id] = NoEntry]

\* getStatus(identifier): store.get, the entry however old it is
getStatus(st, id) == st[id]

\* cleanup(): the callback of the constructor's interval
rlCleanup(st, t) ==
  [i \in Ids |-> IF st[i] # NoEntry /\ st[i].resetTime < t THEN NoEntry
                 ELSE st[i]]

\* ------------------------------------------- login attempts per IP address

ipWindowMs == 1

ipMaxAttempts == 1

Ips == {"x", "y"}

NoIpRet == [allowed |-> FALSE, remainingAttempts |-> NULL, resetTime |-> NULL]

\* checkIpRateLimit(ip) on the address's entry e at time t: the entry it
\* stores and the object it returns
checkIpRateLimit(e, t) ==
  IF e = NoEntry \/ e.resetTime < t
  THEN [entry |-> [count |-> 1, resetTime |-> t + ipWindowMs],
        ret |-> [allowed |-> TRUE, remainingAttempts |-> ipMaxAttempts - 1,
                 resetTime |-> t + ipWindowMs]]
  ELSE LET newCount == e.count + 1
       IN [entry |-> [count |-> newCount, resetTime |-> e.resetTime],
           ret |-> [allowed |-> newCount <= ipMaxAttempts,
                    remainingAttempts |-> Max0(ipMaxAttempts - newCount),
                    resetTime |-> e.resetTime]]

\* resetIpRateLimit(ip)
resetIpRateLimit(m, ip) == [m EXCEPT ![ip] = NoEntry]

\* cleanupIpRateLimits(), also the callback of the module's interval
cleanupIpRateLimits(m, t) ==
  [i \in Ips |-> IF m[i] # NoEntry /\ m[i].resetTime < t THEN NoEntry
                 ELSE m[i]]

\* ------------------------------------------------- rate limiter: the steps

\* history: an identifier is blocked when a check() on it would fail
blocked(e, m, t) == ~expired(e, t) /\ e.count >= m

\* history: the sum of the successes recorded for the last windowMs + 1
\* instants
RECURSIVE SumUpTo(_, _)
SumUpTo(f, n) == IF n < 0 THEN 0 ELSE f[n] + SumUpTo(f, n - 1)

NoRecent == [a \in 0..windowMs |-> 0]

\* history: the successful check() calls of an identifier in the interval
\* [now - windowMs, now]
BurstCount(id) == SumUpTo(recent[id], windowMs)

InitRl(L) ==
  /\ maxRequests \in L
  /\ store = [i \in Ids |-> NoEntry]
  /\ rlOp = [op |-> "init", id |-> "-"]
  /\ rlRet = NoRet
  /\ rlStatus = NoEntry
  /\ win = [i \in Ids |-> NoWin]
  /\ afterReset = [i \in Ids |-> "no"]
  /\ recent = [i \in Ids |-> NoRecent]
  /\ ipLoginAttempts = [i \in Ips |-> NoEntry]
  /\ ipRet = NoIpRet

RlCheck ==
  \E id \in Ids :
    /\ expired(store[id], now) \/ store[id].count <= maxRequests
    /\ LET r == check(store[id], maxRequests, windowMs, now)
       IN /\ store' = [store EXCEPT ![id] = r.entry]
          /\ rlRet' = r.ret
          /\ recent' = [recent EXCEPT ![id][0] =
                          IF r.ret.success THEN @ + 1 ELSE @]
    /\ rlOp' = [op |-> "check", id |-> id]
    /\ rlStatus' = NoEntry
    /\ win' = [win EXCEPT ![id] =
                 IF @.start = NULL \/ now > @.start + windowMs
                 THEN [start |-> now, calls |-> 1]
                 ELSE [@ EXCEPT !.calls = @ + 1]]
    /\ afterReset' = [afterReset EXCEPT ![id] =
                        CASE @ = "reset" -> "first"
                          [] @ = "resetBlocked" -> "firstBlocked"
                          [] OTHER -> "no"]
    /\ UNCHANGED <<now, maxRequests>>
    /\ ipRet' = NoIpRet
    /\ UNCHANGED ipLoginAttempts
    /\ ipRet' = NoIpRet
  /\ UNCHANGED ipLoginAttempts
  /\ UNCHANGED rlFrame

RlReset ==
  \E id \in Ids :
    /\ store' = rlReset(store, id)
    /\ rlOp' = [op |-> "reset", id |-> id]
    /\ rlRet' = NoRet
    /\ rlStatus' = NoEntry
    /\ win' = [win EXCEPT ![id] = NoWin]
    /\ afterReset' = [afterReset EXCEPT ![id] =
                        IF blocked(store[id], maxRequests, now)
                        THEN "resetBlocked" ELSE "reset"]
    /\ recent' = [recent EXCEPT ![id] = NoRecent]
    /\ UNCHANGED <<now, maxRequests>>
    /\ ipRet' = NoIpRet
    /\ UNCHANGED ipLoginAttempts
    /\ ipRet' = NoIpRet
  /\ UNCHANGED ipLoginAttempts
  /\ UNCHANGED rlFrame

RlGetStatus ==
  \E id \in Ids :
    /\ rlStatus' = getStatus(store, id)
    /\ rlOp' = [op |-> "getStatus", id |-> id]
    /\ rlRet' = NoRet
    /\ afterReset' = [afterReset EXCEPT ![id] = "no"]
    /\ UNCHANGED <<now, maxRequests, store, win, recent>>
    /\ ipRet' = NoIpRet
    /\ UNCHANGED ipLoginAttempts
    /\ ipRet' = NoIpRet
  /\ UNCHANGED ipLoginAttempts
  /\ UNCHANGED rlFrame

RlCleanup ==
  /\ store' = rlCleanup(store, now)
  /\ rlOp' = [op |-> "cleanup", id |-> "-"]
  /\ rlRet' = NoRet
  /\ rlStatus' = NoEntry
  /\ UNCHANGED <<now, maxRequests, win, afterReset, recent>>
  /\ ipRet' = NoIpRet
  /\ UNCHANGED ipLoginAttempts
  /\ UNCHANGED rlFrame

RlTick ==
  /\ now < RlMaxTime
  /\ now' = now + 1
  /\ recent' = [i \in Ids |->
                  [a \in 0..windowMs |->
                     IF a = 0 THEN 0 ELSE recent[i][a - 1]]]
  /\ rlOp' = [op |-> "tick", id |-> "-"]
  /\ rlRet' = NoRet
  /\ rlStatus' = NoEntry
  /\ UNCHANGED <<maxRequests, store, win, afterReset>>
  /\ ipRet' = NoIpRet
  /\ UNCHANGED ipLoginAttempts
  /\ UNCHANGED rlFrame

\* history kept by the steps of the Map of IP addresses
IpHistory(op, ip) ==
  /\ rlOp' = [op |-> op, id |-> ip]
  /\ rlRet' = NoRet
  /\ rlStatus' = NoEntry
  /\ afterReset' = [i \in Ids |-> "no"]
  /\ UNCHANGED <<now, maxRequests, store, win, recent>>
  /\ UNCHANGED rlFrame

IpCheck ==
  \E ip \in Ips :
    /\ \/ ipLoginAttempts[ip] = NoEntry
       \/ ipLoginAttempts[ip].resetTime < now
       \/ ipLoginAttempts[ip].count <= ipMaxAttempts
    /\ LET r == checkIpRateLimit(ipLoginAttempts[ip], now)
       IN /\ ipLoginAttempts' = [ipLoginAttempts EXCEPT ![ip] = r.entry]
          /\ ipRet' = r.ret
    /\ IpHistory("checkIp", ip)

IpReset ==
  \E ip \in Ips :
    /\ ipLoginAttempts' = resetIpRateLimit(ipLoginAttempts, ip)
    /\ ipRet' = NoIpRet
    /\ IpHistory("resetIp", ip)

IpCleanup ==
  /\ ipLoginAttempts' = cleanupIpRateLimits(ipLoginAttempts, now)
  /\ ipRet' = NoIpRet
  /\ IpHistory("cleanupIp", "-")

RlNext ==
  \/ RlCheck
  \/ RlReset
  \/ RlGetStatus
  \/ RlCleanup
  \/ RlTick
  \/ IpCheck
  \/ IpReset
  \/ IpCleanup

\* ------------------------------------------------------- account lockout

LkMaxTime == 3

MaxFailures == 5

maxAttempts == 3

lockoutDuration == 2

incrementDuration == 1

Emails == {"user", "nobody"}

Registered == {"user"}

Callers == {1, 2}

NoUser == [found |-> FALSE, failedLoginAttempts |-> NULL, lockoutUntil |-> NULL]

Idle == [op |-> "idle", email |-> "-", user |-> NoUser]

NoStatus ==
  [op |-> "none", email |-> "-", read |-> NULL, readUntil |-> NULL,
   isLocked |-> FALSE, remainingAttempts |-> NULL, lockoutUntil |-> NULL, lockoutDuration |-> NULL]

\* prisma.user.findUnique({where: {email}}) on the persisted record a
findUnique(a, email) ==
  IF email \in Registered
  THEN [found |-> TRUE, failedLoginAttempts |-> a.failedLoginAttempts,
        lockoutUntil |-> a.lockoutUntil]
  ELSE NoUser

\* no prisma.user.update
NoUpdate == [update |-> FALSE, failedLoginAttempts |-> NULL, lockoutUntil |-> NULL]

\* prisma.user.update({where: {email}, data})
Update(attempts, until) ==
  [update |-> TRUE, failedLoginAttempts |-> attempts, lockoutUntil |-> until]

checkAccountLockout_ExpiresLate(user, t) ==
  IF ~user.found
  THEN [data |-> NoUpdate,
        ret |-> [isLocked |-> FALSE, remainingAttempts |-> maxAttempts,
                 lockoutUntil |-> NULL, lockoutDuration |-> 0]]
  ELSE IF user.lockoutUntil # NULL /\ user.lockoutUntil >= t
       THEN [data |-> NoUpdate,
             ret |-> [isLocked |-> TRUE, remainingAttempts |-> 0,
                      lockoutUntil |-> user.lockoutUntil,
                      lockoutDuration |-> lockoutDuration]]
       ELSE [data |-> IF user.lockoutUntil # NULL /\ user.lockoutUntil < t
                      THEN Update(0, NULL)
                      ELSE NoUpdate,
             ret |-> [isLocked |-> FALSE,
                      remainingAttempts |->
                        Max0(maxAttempts - OrZero(user.failedLoginAttempts)),
                      lockoutUntil |-> NULL, lockoutDuration |-> 0]]

checkAccountLockout_CountsLockedAttempt(user, t) ==
  IF ~user.found
  THEN [data |-> NoUpdate,
        ret |-> [isLocked |-> FALSE, remainingAttempts |-> maxAttempts,
                 lockoutUntil |-> NULL, lockoutDuration |-> 0]]
  ELSE IF user.lockoutUntil # NULL /\ user.lockoutUntil > t
       THEN [data |-> Update(user.failedLoginAttempts + 1,
                             user.lockoutUntil + incrementDuration),
             ret |-> [isLocked |-> TRUE, remainingAttempts |-> 0,
                      lockoutUntil |-> user.lockoutUntil,
                      lockoutDuration |-> lockoutDuration]]
       ELSE [data |-> IF user.lockoutUntil # NULL /\ user.lockoutUntil <= t
                      THEN Update(0, NULL)
                      ELSE NoUpdate,
             ret |-> [isLocked |-> FALSE,
                      remainingAttempts |->
                        Max0(maxAttempts - OrZero(user.failedLoginAttempts)),
                      lockoutUntil |-> NULL, lockoutDuration |-> 0]]

\* checkAccountLockout() after its findUnique returned user, at time t: the
\* update it makes and the status it returns
checkAccountLockout(user, t) ==
  IF ~user.found
  THEN [data |-> NoUpdate,
        ret |-> [isLocked |-> FALSE, remainingAttempts |-> maxAttempts,
                 lockoutUntil |-> NULL, lockoutDuration |-> 0]]
  ELSE IF user.lockoutUntil # NULL /\ user.lockoutUntil > t
       THEN [data |-> NoUpdate,
             ret |-> [isLocked |-> TRUE, remainingAttempts |-> 0,
                      lockoutUntil |-> user.lockoutUntil,
                      lockoutDuration |-> lockoutDuration]]
       ELSE [data |-> IF user.lockoutUntil # NULL /\ user.lockoutUntil <= t
                      THEN Update(0, NULL)
                      ELSE NoUpdate,
             ret |-> [isLocked |-> FALSE,
                      remainingAttempts |->
                        Max0(maxAttempts - OrZero(user.failedLoginAttempts)),
                      lockoutUntil |-> NULL, lockoutDuration |-> 0]]

recordFailedLoginAttempt_FlatDuration(user, t) ==
  IF ~user.found
  THEN [data |-> NoUpdate,
        ret |-> [isLocked |-> FALSE, remainingAttempts |-> maxAttempts - 1,
                 lockoutUntil |-> NULL, lockoutDuration |-> 0]]
  ELSE LET currentAttempts == OrZero(user.failedLoginAttempts) + 1
           shouldLock == currentAttempts >= maxAttempts
           excessAttempts == currentAttempts - maxAttempts
           duration == IF shouldLock
                       THEN lockoutDuration
                       ELSE 0
           until == IF shouldLock THEN t + duration ELSE NULL
       IN [data |-> Update(currentAttempts, until),
           ret |-> [isLocked |-> shouldLock,
                    remainingAttempts |-> Max0(maxAttempts - currentAttempts),
                    lockoutUntil |-> until, lockoutDuration |-> duration]]

recordFailedLoginAttempt_LocksOneEarly(user, t) ==
  IF ~user.found
  THEN [data |-> NoUpdate,
        ret |-> [isLocked |-> FALSE, remainingAttempts |-> maxAttempts - 1,
                 lockoutUntil |-> NULL, lockoutDuration |-> 0]]
  ELSE LET currentAttempts == OrZero(user.failedLoginAttempts) + 1
           shouldLock == currentAttempts >= maxAttempts - 1
           excessAttempts == currentAttempts - maxAttempts
           duration == IF shouldLock
                       THEN lockoutDuration + Max0(excessAttempts) * incrementDuration
                       ELSE 0
           until == IF shouldLock THEN t + duration ELSE NULL
       IN [data |-> Update(currentAttempts, until),
           ret |-> [isLocked |-> shouldLock,
                    remainingAttempts |-> Max0(maxAttempts - currentAttempts),
                    lockoutUntil |-> until, lockoutDuration |-> duration]]

recordFailedLoginAttempt_LocksOneLate(user, t) ==
  IF ~user.found
  THEN [data |-> NoUpdate,
        ret |-> [isLocked |-> FALSE, remainingAttempts |-> maxAttempts - 1,
                 lockoutUntil |-> NULL, lockoutDuration |-> 0]]
  ELSE LET currentAttempts == OrZero(user.failedLoginAttempts) + 1
           shouldLock == currentAttempts > maxAttempts
           excessAttempts == currentAttempts - maxAttempts
           duration == IF shouldLock
                       THEN lockoutDuration + excessAttempts * incrementDuration
                       ELSE 0
           until == IF shouldLock THEN t + duration ELSE NULL
       IN [data |-> Update(currentAttempts, until),
           ret |-> [isLocked |-> shouldLock,
                    remainingAttempts |-> Max0(maxAttempts - currentAttempts),
                    lockoutUntil |-> until, lockoutDuration |-> duration]]

\* recordFailedLoginAttempt() after its findUnique returned user, at time t:
\* the update it makes and the status it returns
recordFailedLoginAttempt(user, t) ==
  IF ~user.found
  THEN [data |-> NoUpdate,
        ret |-> [isLocked |-> FALSE, remainingAttempts |-> maxAttempts - 1,
                 lockoutUntil |-> NULL, lockoutDuration |-> 0]]
  ELSE LET currentAttempts == OrZero(user.failedLoginAttempts) + 1
           shouldLock == currentAttempts >= maxAttempts
           excessAttempts == currentAttempts - maxAttempts
           duration == IF shouldLock
                       THEN lockoutDuration + excessAttempts * incrementDuration
                       ELSE 0
           until == IF shouldLock THEN t + duration ELSE NULL
       IN [data |-> Update(currentAttempts, until),
           ret |-> [isLocked |-> shouldLock,
                    remainingAttempts |-> Max0(maxAttempts - currentAttempts),
                    lockoutUntil |-> until, lockoutDuration |-> duration]]

resetFailedLoginAttempts_NoUpdate == NoUpdate

\* resetFailedLoginAttempts(): the update it makes
resetFailedLoginAttempts == Update(0, NULL)

\* the persisted record after an update
Persist(a, data) ==
  IF data.update
  THEN [failedLoginAttempts |-> data.failedLoginAttempts,
        lockoutUntil |-> data.lockoutUntil]
  ELSE a

\* history: the status a call returns, with the call and what it had read
Returned(call, ret) ==
  [op |-> call.op, email |-> call.email,
   read |-> call.user.failedLoginAttempts,
   readUntil |-> call.user.lockoutUntil,
   isLocked |-> ret.isLocked, remainingAttempts |-> ret.remainingAttempts,
   lockoutUntil |-> ret.lockoutUntil, lockoutDuration |-> ret.lockoutDuration]

\* history: the duration of the persisted lockout after a call's update
LockedFor(prev, r) ==
  IF ~r.data.update THEN prev
  ELSE IF r.data.lockoutUntil = NULL THEN 0
  ELSE r.ret.lockoutDuration

\* history: the duration of the last lockout reset as expired, after a
\* checkAccountLockout() with result r on a lockout of duration locked
ExpiredLock(prev, locked, r) ==
  IF r.data.update /\ locked > 0 THEN locked ELSE prev

InitLk ==
  /\ acct = [failedLoginAttempts |-> 0, lockoutUntil |-> NULL]
  /\ pending = [c \in Callers |-> Idle]
  /\ lkRet = NoStatus
  /\ lockedFor = 0
  /\ expiredLock = 0

\* a call up to the end of its "await prisma.user.findUnique"
LkRead(c, email, op) ==
  /\ pending' = [pending EXCEPT ![c] =
                   [op |-> op, email |-> email,
                    user |-> findUnique(acct, email)]]
  /\ lkRet' = NoStatus
  /\ UNCHANGED <<now, acct, lockedFor, expiredLock>>
  /\ UNCHANGED lkFrame

\* a call from its findUnique to its return, its update included
LkFinish(c, r) ==
  /\ acct' = Persist(acct, r.data)
  /\ lkRet' = Returned(pending[c], r.ret)
  /\ lockedFor' = LockedFor(lockedFor, r)
  /\ expiredLock' = IF pending[c].op = "check"
                    THEN ExpiredLock(expiredLock, lockedFor, r)
                    ELSE expiredLock
  /\ pending' = [pending EXCEPT ![c] = Idle]
  /\ UNCHANGED now
  /\ UNCHANGED lkFrame

LkCheckRead ==
  \E c \in Callers, email \in Emails :
    /\ pending[c] = Idle
    /\ LkRead(c, email, "check")

LkCheckFinish ==
  \E c \in Callers :
    /\ pending[c].op = "check"
    /\ LkFinish(c, checkAccountLockout(pending[c].user, now))

LkRecordRead ==
  \E c \in Callers, email \in Emails :
    /\ pending[c] = Idle
    /\ acct.failedLoginAttempts < MaxFailures
    /\ LkRead(c, email, "record")

LkRecordFinish ==
  \E c \in Callers :
    /\ pending[c].op = "record"
    /\ LkFinish(c, recordFailedLoginAttempt(pending[c].user, now))

LkReset ==
  /\ acct' = Persist(acct, resetFailedLoginAttempts)
  /\ lkRet' = [NoStatus EXCEPT !.op = "reset"]
  /\ lockedFor' = 0
  /\ expiredLock' = 0
  /\ UNCHANGED <<now, pending>>
  /\ UNCHANGED lkFrame

LkTick ==
  /\ now < LkMaxTime
  /\ now' = now + 1
  /\ lkRet' = NoStatus
  /\ UNCHANGED <<acct, pending, lockedFor, expiredLock>>
  /\ UNCHANGED lkFrame

LkNext ==
  \/ LkCheckRead
  \/ LkCheckFinish
  \/ LkRecordRead
  \/ LkRecordFinish
  \/ LkReset
  \/ LkTick

\* ------------------------------------------------------ login: authorize

AuthMaxTime == 2

Sessions == {1, 2}

Passwords == {"right", "wrong"}

IdleSession == [pc |-> "idle", email |-> "-", password |-> "-", user |-> NoUser]

NoRecordStatus ==
  [isLocked |-> FALSE, remainingAttempts |-> NULL, lockoutUntil |-> NULL,
   lockoutDuration |-> NULL]

NoAuthRet ==
  [outcome |-> "none", email |-> "-", password |-> "-",
   status |-> NoRecordStatus, attemptsBefore |-> NULL, untilBefore |-> NULL]

\* history: how an authorize() call ended
Ended(se, outcome, status) ==
  [outcome |-> outcome, email |-> se.email, password |-> se.password,
   status |-> status, attemptsBefore |-> acct.failedLoginAttempts,
   untilBefore |-> acct.lockoutUntil]

\* bcrypt.compare(password, user.password)
passwordsMatch(password) == password = "right"

InitAuth ==
  /\ sess = [s \in Sessions |-> IdleSession]
  /\ authRet = NoAuthRet

\* authorize() up to the findUnique of its checkAccountLockout()
AuthStart ==
  \E s \in Sessions, email \in Emails, password \in Passwords :
    /\ sess[s].pc = "idle"
    /\ sess' = [sess EXCEPT ![s] =
                  [pc |-> "checking", email |-> email, password |-> password,
                   user |-> findUnique(acct, email)]]
    /\ authRet' = NoAuthRet
    /\ UNCHANGED <<now, acct, lockedFor, expiredLock>>
    /\ UNCHANGED authFrame

\* the rest of checkAccountLockout() and the "Account locked" throw
AuthLockoutChecked ==
  \E s \in Sessions :
    /\ sess[s].pc = "checking"
    /\ LET r == checkAccountLockout(sess[s].user, now)
       IN /\ acct' = Persist(acct, r.data)
          /\ lockedFor' = LockedFor(lockedFor, r)
          /\ expiredLock' = ExpiredLock(expiredLock, lockedFor, r)
          /\ IF r.ret.isLocked
             THEN /\ sess' = [sess EXCEPT ![s] = IdleSession]
                  /\ authRet' = Ended(sess[s], "locked", NoRecordStatus)
             ELSE /\ sess' = [sess EXCEPT ![s].pc = "verifying"]
                  /\ authRet' = NoAuthRet
    /\ UNCHANGED now
    /\ UNCHANGED authFrame

\* the user lookup and the password comparison, up to the next access to the
\* lockout fields: the whole recordFailedLoginAttempt() for an e-mail with no
\* user, its findUnique after a wrong password
AuthVerify ==
  \E s \in Sessions :
    /\ sess[s].pc = "verifying"
    /\ LET user == findUnique(acct, sess[s].email)
       IN IF ~user.found
          THEN /\ sess' = [sess EXCEPT ![s] = IdleSession]
               /\ authRet' =
                    Ended(sess[s], "null",
                          recordFailedLoginAttempt(NoUser, now).ret)
          ELSE /\ sess' = [sess EXCEPT ![s] =
                             IF passwordsMatch(sess[s].password)
                             THEN [@ EXCEPT !.pc = "resetting"]
                             ELSE [@ EXCEPT !.pc = "recording",
                                            !.user = user]]
               /\ authRet' = NoAuthRet
    /\ UNCHANGED <<now, acct, lockedFor, expiredLock>>
    /\ UNCHANGED authFrame

\* the rest of recordFailedLoginAttempt(), then the throw or "return null"
AuthRecord ==
  \E s \in Sessions :
    /\ sess[s].pc = "recording"
    /\ LET r == recordFailedLoginAttempt(sess[s].user, now)
       IN /\ acct' = Persist(acct, r.data)
          /\ lockedFor' = LockedFor(lockedFor, r)
          /\ UNCHANGED expiredLock
          /\ authRet' = Ended(sess[s],
                              IF r.ret.isLocked THEN "lockedNow" ELSE "null",
                              r.ret)
    /\ sess' = [sess EXCEPT ![s] = IdleSession]
    /\ UNCHANGED now
    /\ UNCHANGED authFrame

\* resetFailedLoginAttempts() and the return of the user
AuthReset ==
  \E s \in Sessions :
    /\ sess[s].pc = "resetting"
    /\ acct' = Persist(acct, resetFailedLoginAttempts)
    /\ lockedFor' = 0
    /\ expiredLock' = 0
    /\ authRet' = Ended(sess[s], "user", NoRecordStatus)
    /\ sess' = [sess EXCEPT ![s] = IdleSession]
    /\ UNCHANGED now
    /\ UNCHANGED authFrame

AuthTick ==
  /\ now < AuthMaxTime
  /\ now' = now + 1
  /\ authRet' = NoAuthRet
  /\ UNCHANGED <<acct, lockedFor, expiredLock, sess>>
  /\ UNCHANGED authFrame

AuthNext ==
  \/ AuthStart
  \/ AuthLockoutChecked
  \/ AuthVerify
  \/ AuthRecord
  \/ AuthReset
  \/ AuthTick

\* -------------------------------------------------------------- shutdown

MaxHandlers == 2

defaultTimeout == 2

HandlerNames == {"database", "cache"}

Signals == {"SIGTERM", "SIGINT", "uncaughtException", "unhandledRejection"}

\* the handlers registered: one with a timeout of its own, one that gives
\* none (0)
ShutdownHandlers == {[name |-> "database", timeout |-> 1],
                     [name |-> "cache", timeout |-> 0]}

\* "handler.timeout || this.defaultTimeout"
timeoutOf(h) == IF h.timeout # 0 THEN h.timeout ELSE defaultTimeout

handleShutdownIgnores_Never(flag) == FALSE

\* handleShutdown(): "if (this.isShuttingDown) return"
handleShutdownIgnores(flag) == flag

loopContinuesAfter_OnlySuccess(success) == success

\* executeHandlers(): the try/catch inside the loop catches the rejection and
\* the timeout of a handler, so the loop goes on after either
loopContinuesAfter(success) == TRUE

\* handleShutdown(): process.exit(1) in the catch, process.exit(0) after it
exitCodeAfter(threw) == IF threw THEN 1 ELSE 0

\* register(): push
register(hs, h) == Append(hs, h)

\* unregister(): filter
unregister(hs, name) == SelectSeq(hs, LAMBDA h : h.name # name)

NamesOf(hs) == [i \in 1..Len(hs) |-> hs[i].name]

InitSd ==
  /\ handlers = <<>>
  /\ isShuttingDown = FALSE
  /\ listening = FALSE
  /\ sdPc = "idle"
  /\ loopArr = <<>>
  /\ aliased = FALSE
  /\ idx = 0
  /\ startAt = NULL
  /\ results = <<>>
  /\ exitCode = NULL
  /\ signal = "-"
  /\ dbPc = "idle"
  /\ started = <<>>
  /\ flushed = "no"
  /\ sdOp = [op |-> "init", arg |-> "-"]

\* executeHandlers(): the loop moves to position i of the array arr: it
\* invokes the handler there and awaits its race, or leaves the loop, and
\* handleShutdown() awaits flushLogs()
LoopAt(arr, i) ==
  IF i <= Len(arr)
  THEN /\ sdPc' = "running"
       /\ idx' = i
       /\ startAt' = now
       /\ started' = Append(started, arr[i].name)
       /\ UNCHANGED <<exitCode, flushed>>
  ELSE /\ sdPc' = "flushing"
       /\ idx' = i
       /\ startAt' = NULL
       /\ UNCHANGED <<exitCode, flushed, started>>

\* the race of the handler awaited is over
HandlerDone(success, how) ==
  /\ sdPc = "running"
  /\ results' = Append(results, [name |-> loopArr[idx].name,
                                 success |-> success,
                                 error |-> IF how = "timeout" THEN "Timeout"
                                           ELSE IF success THEN "-"
                                           ELSE "Error"])
  /\ sdOp' = [op |-> how, arg |-> "-"]
  /\ IF loopContinuesAfter(success)
     THEN LoopAt(loopArr, idx + 1)
     ELSE /\ sdPc' = "exited"
          /\ exitCode' = exitCodeAfter(TRUE)
          /\ UNCHANGED <<idx, startAt, started, flushed>>
  /\ UNCHANGED <<now, handlers, isShuttingDown, listening, loopArr, aliased,
                 signal, dbPc>>
  /\ UNCHANGED sdFrame

SdSetup ==
  /\ ~listening
  /\ sdPc # "exited"
  /\ listening' = TRUE
  /\ sdOp' = [op |-> "setup", arg |-> "-"]
  /\ UNCHANGED <<now, handlers, isShuttingDown, sdPc, loopArr, aliased, idx,
                 startAt, results, exitCode, signal, dbPc, started, flushed>>
  /\ UNCHANGED sdFrame

SdRegister ==
  \E h \in ShutdownHandlers :
    /\ sdPc # "exited"
    /\ Len(handlers) < MaxHandlers
    /\ handlers' = register(handlers, h)
    \* a push onto the array under iteration is seen by the running loop
    /\ loopArr' = IF aliased /\ sdPc = "running"
                  THEN register(loopArr, h) ELSE loopArr
    /\ sdOp' = [op |-> "register", arg |-> "-"]
    /\ UNCHANGED <<now, isShuttingDown, listening, sdPc, aliased, idx, startAt,
                   results, exitCode, signal, dbPc, started, flushed>>
    /\ UNCHANGED sdFrame

SdUnregister ==
  \E name \in HandlerNames :
    /\ sdPc # "exited"
    /\ handlers' = unregister(handlers, name)
    /\ aliased' = FALSE
    /\ sdOp' = [op |-> "unregister", arg |-> "-"]
    /\ UNCHANGED <<now, isShuttingDown, listening, sdPc, loopArr, idx, startAt,
                   results, exitCode, signal, dbPc, started, flushed>>
    /\ UNCHANGED sdFrame

\* handleShutdown(sig), up to its first await
handleShutdown(sig) ==
  IF handleShutdownIgnores(isShuttingDown)
  THEN /\ sdOp' = [op |-> "ignored", arg |-> sig]
       /\ UNCHANGED <<isShuttingDown, sdPc, loopArr, aliased, idx, startAt,
                      results, exitCode, signal, started, flushed>>
  ELSE /\ sdOp' = [op |-> "shutdown", arg |-> sig]
       /\ isShuttingDown' = TRUE
       /\ signal' = sig
       /\ loopArr' = handlers
       /\ aliased' = TRUE
       /\ results' = <<>>
       /\ LoopAt(handlers, 1)

\* the signals the database module listens to
DbSignals == {"SIGINT", "SIGTERM"}

\* the process emits sig: the listeners run in the order they were added, the
\* database module's, added when it was imported, before the one of setup()
SdSignal ==
  \E sig \in Signals :
    /\ sdPc # "exited"
    /\ sig \in DbSignals \/ listening
    /\ dbPc' = IF sig \in DbSignals THEN "disconnecting" ELSE dbPc
    /\ IF listening
       THEN handleShutdown(sig)
       ELSE /\ sdOp' = [op |-> "signal", arg |-> sig]
            /\ UNCHANGED <<isShuttingDown, sdPc, loopArr, aliased, idx, startAt,
                           results, exitCode, signal, started, flushed>>
    /\ UNCHANGED <<now, handlers, listening>>
    /\ UNCHANGED sdFrame

\* disconnectDatabase() resolves and the database module's listener calls
\* process.exit(0)
DbDisconnected ==
  /\ dbPc = "disconnecting"
  /\ sdPc # "exited"
  /\ sdPc' = "exited"
  /\ exitCode' = 0
  /\ sdOp' = [op |-> "dbExit", arg |-> "-"]
  /\ UNCHANGED <<now, handlers, isShuttingDown, listening, loopArr, aliased,
                 idx, startAt, results, signal, dbPc, started, flushed>>
  /\ UNCHANGED sdFrame

\* disconnectDatabase() rejects and so does the listener: an unhandled
\* rejection, which goes to handleShutdown() after setup() and ends the
\* process with code 1 before it. Other calls of the listener may remain.
DbDisconnectFails ==
  \E rest \in {"idle", "disconnecting"} :
    /\ dbPc = "disconnecting"
    /\ sdPc # "exited"
    /\ dbPc' = rest
    /\ IF listening
       THEN handleShutdown("unhandledRejection")
       ELSE /\ sdPc' = "exited"
            /\ exitCode' = 1
            /\ sdOp' = [op |-> "dbCrash", arg |-> "-"]
            /\ UNCHANGED <<isShuttingDown, loopArr, aliased, idx, startAt,
                           results, signal, started, flushed>>
    /\ UNCHANGED <<now, handlers, listening>>
    /\ UNCHANGED sdFrame

SdHandlerResolves == HandlerDone(TRUE, "resolved") /\ TRUE

SdHandlerRejects == HandlerDone(FALSE, "rejected") /\ TRUE

raceTimerDue_OnlyOwnTimeout(h, start, t) == h.timeout # 0 /\ t >= start + h.timeout

\* the setTimeout of the race, set at start for timeoutOf(h), is due at t
raceTimerDue(h, start, t) == t >= start + timeoutOf(h)

SdHandlerTimeout ==
  /\ sdPc = "running"
  /\ raceTimerDue(loopArr[idx], startAt, now)
  /\ HandlerDone(FALSE, "timeout")

\* flushLogs() resolves, or rejects, and the process exits
SdFlush ==
  \E threw \in BOOLEAN :
    /\ sdPc = "flushing"
    /\ flushed' = IF threw THEN "failed" ELSE "ok"
    /\ exitCode' = exitCodeAfter(threw)
    /\ sdPc' = "exited"
    /\ sdOp' = [op |-> "exit", arg |-> "-"]
    /\ UNCHANGED <<now, handlers, isShuttingDown, listening, loopArr, aliased,
                   idx, startAt, results, signal, dbPc, started>>
    /\ UNCHANGED sdFrame

\* time passes while a handler is awaited, until its timer is due
SdTick ==
  /\ sdPc = "running"
  /\ now - startAt < timeoutOf(loopArr[idx])
  /\ now' = now + 1
  /\ sdOp' = [op |-> "tick", arg |-> "-"]
  /\ UNCHANGED <<handlers, isShuttingDown, listening, sdPc, loopArr, aliased,
                 idx, startAt, results, exitCode, signal, dbPc, started, flushed>>
  /\ UNCHANGED sdFrame

SdNext ==
  \/ SdSetup
  \/ SdRegister
  \/ SdUnregister
  \/ SdSignal
  \/ SdHandlerResolves
  \/ SdHandlerRejects
  \/ SdHandlerTimeout
  \/ SdFlush
  \/ DbDisconnected
  \/ DbDisconnectFails
  \/ SdTick

\* ------------------------------------------------- shutdown-aware wrappers

\* what the onShutdown option returns: "none" when no option is given
Callbacks == {"none", "fallback", "undefined", "null"}

\* "options?.onShutdown?.()"
onShutdownResult(opt) == IF opt = "none" THEN "undefined" ELSE opt

\* the left operand of ?? for which the right one is taken
nullish(v) == v \in {"undefined", "null"}

\* the wrapper made by withShutdownCheck(fn, options), called while
\* isShuttingDown() gives flag: what it returns, and the calls it made
withShutdownCheck(flag, opt) ==
  IF flag
  THEN [fnCalls |-> 0,
        cbCalls |-> IF opt = "none" THEN 0 ELSE 1,
        how |-> IF nullish(onShutdownResult(opt))
                THEN "returnsRejectedPromise" ELSE "returns",
        value |-> IF nullish(onShutdownResult(opt))
                  THEN "Shutdown in progress" ELSE onShutdownResult(opt)]
  ELSE [fnCalls |-> 1, cbCalls |-> 0, how |-> "returns", value |-> "result"]

\* the wrapper made by withShutdownCheckAsync(fn, options): its onShutdown
\* returns a promise, which is never nullish, resolved with what opt names
withShutdownCheckAsync(flag, opt) ==
  IF flag
  THEN [fnCalls |-> 0,
        cbCalls |-> IF opt = "none" THEN 0 ELSE 1,
        how |-> IF opt = "none" THEN "rejects" ELSE "resolves",
        value |-> IF opt = "none" THEN "Shutdown in progress" ELSE opt]
  ELSE [fnCalls |-> 1, cbCalls |-> 0, how |-> "resolves", value |-> "result"]

NoWrapRet ==
  [kind |-> "none", onShutdown |-> "none", shutting |-> FALSE, fnCalls |-> 0,
   cbCalls |-> 0, how |-> "-", value |-> "-"]

WrapRet(kind, opt, r) ==
  [kind |-> kind, onShutdown |-> opt, shutting |-> isShuttingDown,
   fnCalls |-> r.fnCalls, cbCalls |-> r.cbCalls, how |-> r.how,
   value |-> r.value]

InitWrap == wrapRet = NoWrapRet

WrappedCall ==
  \E opt \in Callbacks :
    /\ sdPc # "exited"
    /\ wrapRet' = WrapRet("sync", opt, withShutdownCheck(isShuttingDown, opt))
    /\ UNCHANGED wrapFrame

WrappedCallAsync ==
  \E opt \in Callbacks :
    /\ sdPc # "exited"
    /\ wrapRet' = WrapRet("async", opt,
                          withShutdownCheckAsync(isShuttingDown, opt))
    /\ UNCHANGED wrapFrame

WrapNext ==
  \/ SdSetup
  \/ SdRegister
  \/ SdSignal
  \/ WrappedCall
  \/ WrappedCallAsync

\* ---------------------------------------------------------------- logger

\* keys of logged objects: the first two match SENSITIVE_PATTERNS
\* (/password/i, /token/i), the third matches none of them
LogKeys == {"password", "accessToken", "userId"}

\* SENSITIVE_PATTERNS.some(pattern => pattern.test(key))
isSensitive(key) == key \in {"password", "accessToken"}

Leaf(v) == [t |-> "leaf", v |-> v]

Obj(f) == [t |-> "obj", f |-> f]

Arr(items) == [t |-> "arr", items |-> items]

REDACTED == Leaf("[REDACTED]")

\* objects with one or two of the keys and values in V
ObjectsOver(K, V) ==
  {Obj(f) : f \in UNION {[D -> V] : D \in {E \in SUBSET K : Cardinality(E) \in {1, 2}}}}

LeafValues == {Leaf("v")}

EmptyObject == Obj(<<>>)

\* the data argument of a log call: undefined, or an object two levels deep
LogData ==
  {Leaf("undefined")}
    \cup ObjectsOver(LogKeys, {Leaf("v"), Arr(<<Obj([password |-> Leaf("v")])>>),
                               Obj([password |-> Leaf("v")]),
                               Obj([userId |-> Leaf("v")])})

\* context bags given to child()
ContextBags == ObjectsOver({"accessToken", "userId"}, LeafValues)

RECURSIVE redactSensitiveData(_)
\* redactSensitiveData(data)
redactSensitiveData(data) ==
  CASE data.t = "leaf" -> data
    [] data.t = "arr" ->
         Arr([i \in DOMAIN data.items |-> redactSensitiveData(data.items[i])])
    [] data.t = "obj" ->
         Obj([k \in DOMAIN data.f |->
                IF isSensitive(k) THEN REDACTED
                ELSE redactSensitiveData(data.f[k])])

\* { ...a, ...b }; spreading undefined adds nothing
spread(a, b) ==
  IF b.t # "obj" THEN a
  ELSE Obj([k \in DOMAIN a.f \cup DOMAIN b.f |->
              IF k \in DOMAIN b.f THEN b.f[k] ELSE a.f[k]])

\* debug(), info(), warn(), log(): "data ? redactSensitiveData(data) :
\* undefined", spread over this.context
emit(context, data) ==
  spread(context, IF data = Leaf("undefined") THEN data
                  ELSE redactSensitiveData(data))

\* error(): the error goes in as { err } or { error }, between the context
\* and the data
emitError(context, error, data) ==
  spread(spread(context, IF error = Leaf("Error")
                         THEN Obj([err |-> error])
                         ELSE Obj([error |-> error])),
         IF data = Leaf("undefined") THEN data ELSE redactSensitiveData(data))

NoLogCall ==
  [op |-> "none", context |-> EmptyObject, error |-> Leaf("undefined"),
   data |-> Leaf("undefined")]

InitLog ==
  /\ logContext = EmptyObject
  /\ emitted = EmptyObject
  /\ logCall = NoLogCall

\* logger = logger.child(additionalContext)
LogChild ==
  \E additionalContext \in ContextBags :
    /\ logContext' = spread(logContext, additionalContext)
    /\ UNCHANGED <<emitted, logCall>>
    /\ UNCHANGED logFrame

LogInfo ==
  \E data \in LogData :
    /\ emitted' = emit(logContext, data)
    /\ logCall' = [op |-> "info", context |-> logContext,
                   error |-> Leaf("undefined"), data |-> data]
    /\ UNCHANGED logContext
    /\ UNCHANGED logFrame

LogError ==
  \E error \in {Leaf("Error"), Leaf("undefined"),
                Obj([password |-> Leaf("v")])},
     data \in {Leaf("undefined"), Obj([password |-> Leaf("v")]),
               Obj([userId |-> Leaf("v")])} :
    /\ emitted' = emitError(logContext, error, data)
    /\ logCall' = [op |-> "error", context |-> logContext, error |-> error,
                   data |-> data]
    /\ UNCHANGED logContext
    /\ UNCHANGED logFrame

LogNext ==
  \/ LogChild
  \/ LogInfo
  \/ LogError

\* ------------------------------------------------------ specifications

vars == <<now, cbVars, cacheVars, rlVars, lkVars, authVars, sdVars, wrapVars,
         logVars>>

Init ==
  now = 0 /\ InitCB /\ InitCache /\ InitRl({MaxLimit}) /\ InitLk /\ InitAuth
  /\ InitSd
  /\ InitWrap
  /\ InitLog

RlInit ==
  now = 0 /\ InitCB /\ InitCache /\ InitRl(Limits) /\ InitLk /\ InitAuth
  /\ InitSd
  /\ InitWrap
  /\ InitLog

Next ==
  \/ Execute
  \/ Resolve
  \/ Reject
  \/ Timeout
  \/ LateSettle
  \/ Reset
  \/ Open
  \/ Tick

Spec == Init /\ [][Next]_vars

CacheSpec == Init /\ [][CacheNext]_vars

RlSpec == RlInit /\ [][RlNext]_vars

LockoutSpec == Init /\ [][LkNext]_vars

AuthSpec == Init /\ [][AuthNext]_vars

ShutdownSpec == Init /\ [][SdNext]_vars

\* time passes, a timer that is due fires, and flushLogs(), a 100 ms timer,
\* settles; nothing is assumed of the handlers' promises
SdFairness ==
  /\ WF_vars(SdTick)
  /\ WF_vars(SdHandlerTimeout)
  /\ WF_vars(SdFlush)

WrapSpec == Init /\ [][WrapNext]_vars

LogSpec == Init /\ [][LogNext]_vars

ShutdownFairSpec == Init /\ [][SdNext]_vars /\ SdFairness

\* --------------------------------------------- circuit breaker: properties

Failed(op) == op \in {"failure", "timeout"}

NoneInFlight == Len(inflight) = 0

\* C1: counting the failures recorded one after another from a CLOSED
\* breaker (no success, reset(), open() or half-open trial in between), the
\* breaker is OPEN once failureThreshold of them are recorded and is still
\* CLOSED while fewer are.
C1_OpensAtFailureThreshold ==
  streakBase = "CLOSED" =>
    getState(cb) = (IF streak >= failureThreshold THEN "OPEN" ELSE "CLOSED")

C1_Witness ==
  /\ streakBase = "CLOSED"
  /\ streak = failureThreshold
  /\ Failed(lastOp)
  /\ NoneInFlight
  /\ getState(cb) = "OPEN"

\* C2: an execute() call made while OPEN and before nextAttemptTime is
\* rejected, does not invoke the operation and leaves every breaker field
\* (state, counters, nextAttemptTime, cumulative totals) as it was.
C2_OpenRejectsWithoutEffect ==
  [][ ( /\ cb.state = "OPEN"
        /\ cb.nextAttemptTime # NULL
        /\ now < cb.nextAttemptTime
        /\ lastOp' \in {"rejected", "started"} )
      => ( /\ lastOp' = "rejected"
           /\ invoked' = invoked
           /\ inflight' = inflight
           /\ cb' = cb ) ]_vars

C2_Witness ==
  /\ lastOp = "rejected"
  /\ cb.state = "OPEN"
  /\ now < cb.nextAttemptTime
  /\ invoked = failureThreshold

\* C3: in HALF_OPEN successCount is the number of successes recorded since
\* HALF_OPEN was entered and is below successThreshold; the success that
\* brings it to successThreshold closes the breaker with failureCount = 0,
\* successCount = 0 and nextAttemptTime cleared, an earlier success leaves it
\* HALF_OPEN, and nothing but such a success or reset() closes it.
C3_HalfOpenClosesAtSuccessThreshold ==
  /\ [](cb.state = "HALF_OPEN" =>
          (cb.successCount = hoSucc /\ hoSucc < successThreshold))
  /\ [][ (cb.state = "HALF_OPEN" /\ lastOp' = "success") =>
           IF hoSucc + 1 >= successThreshold
           THEN /\ cb'.state = "CLOSED"
                /\ cb'.failureCount = 0
                /\ cb'.successCount = 0
                /\ cb'.nextAttemptTime = NULL
           ELSE cb'.state = "HALF_OPEN" ]_vars
  /\ [][ (cb.state = "HALF_OPEN" /\ cb'.state = "CLOSED") =>
           \/ lastOp' = "reset"
           \/ (lastOp' = "success" /\ hoSucc' = successThreshold) ]_vars

C3_Witness ==
  /\ lastOp = "success"
  /\ hoSucc = successThreshold
  /\ cb.state = "CLOSED"
  /\ cb.nextAttemptTime = NULL
  /\ cb.stats.totalFailures >= failureThreshold

\* C4: a failure recorded while HALF_OPEN (a rejection of the operation or a
\* timeout) leaves the breaker OPEN with successCount = 0 and
\* nextAttemptTime = time of the failure + resetTimeout, whatever the number
\* of successes recorded in HALF_OPEN before it.
C4_HalfOpenFailureReopens ==
  [][ (cb.state = "HALF_OPEN" /\ Failed(lastOp')) =>
        ( /\ cb'.state = "OPEN"
          /\ cb'.successCount = 0
          /\ cb'.nextAttemptTime = now + resetTimeout ) ]_vars

C4_Witness ==
  /\ lastOp = "failure"
  /\ streakBase = "HALF_OPEN"
  /\ streak = 1
  /\ hoSucc = 1
  /\ cb.state = "OPEN"
  /\ cb.nextAttemptTime = now + resetTimeout

\* C5: an execute() call made while OPEN at or after nextAttemptTime puts
\* the breaker in HALF_OPEN with successCount = 0 and invokes the operation,
\* which sees the breaker HALF_OPEN; and no step other than reset() takes the
\* breaker from OPEN to CLOSED.
C5_OpenToHalfOpenFirst ==
  /\ [][ ( /\ cb.state = "OPEN"
           /\ cb.nextAttemptTime # NULL
           /\ now >= cb.nextAttemptTime
           /\ lastOp' \in {"rejected", "started"} )
         => ( /\ lastOp' = "started"
              /\ cb'.state = "HALF_OPEN"
              /\ cb'.successCount = 0
              /\ invoked' = invoked + 1
              /\ Len(inflight') = Len(inflight) + 1
              /\ inflight'[Len(inflight')].seen = "HALF_OPEN" ) ]_vars
  /\ [][ (cb.state = "OPEN" /\ cb'.state = "CLOSED") => lastOp' = "reset" ]_vars

C5_Witness ==
  /\ lastOp = "started"
  /\ cb.state = "HALF_OPEN"
  /\ streakBase = "HALF_OPEN"
  /\ cb.nextAttemptTime # NULL
  /\ now >= cb.nextAttemptTime
  /\ inflight[Len(inflight)].seen = "HALF_OPEN"

\* C6: a success recorded while CLOSED sets failureCount to 0, and a CLOSED
\* breaker is opened by traffic only by a failure that is at least the
\* failureThreshold-th in a row with no success recorded in between.
C6_SuccessResetsFailureCount ==
  /\ [][ (cb.state = "CLOSED" /\ lastOp' = "success") =>
           (cb'.failureCount = 0 /\ cb'.state = "CLOSED") ]_vars
  /\ [][ (cb.state = "CLOSED" /\ cb'.state = "OPEN" /\ lastOp' # "open") =>
           (Failed(lastOp') /\ streak' >= failureThreshold) ]_vars

C6_Witness ==
  /\ cb.state = "CLOSED"
  /\ adminOps = 0
  /\ cb.stats.totalFailures = failureThreshold
  /\ cb.stats.totalSuccesses = 1
  /\ cb.failureCount < failureThreshold
  /\ Failed(lastOp)

\* C7: a timeout is recorded as exactly one failure (failureCount and
\* totalFailures go up by one, totalSuccesses and totalRequests stay), and
\* the later settlement of the timed-out operation changes no breaker field.
C7_TimeoutIsOneFailure ==
  /\ [][ lastOp' = "timeout" =>
           ( /\ cb'.failureCount = cb.failureCount + 1
             /\ cb'.stats.totalFailures = cb.stats.totalFailures + 1
             /\ cb'.stats.totalSuccesses = cb.stats.totalSuccesses
             /\ cb'.stats.totalRequests = cb.stats.totalRequests
             /\ Len(inflight') = Len(inflight) - 1 ) ]_vars
  /\ [][ lastOp' = "late" => cb' = cb ]_vars

C7_Witness ==
  /\ lastOp = "late"
  /\ cb.stats.totalFailures = 1
  /\ cb.stats.totalRequests = 1
  /\ cb.failureCount = 1
  /\ NoneInFlight

\* C8: right after reset() getState() is CLOSED and getStats() reports
\* failureCount = 0 and successCount = 0; right after open() getState() is
\* OPEN.
C8_ResetAndOpenReported ==
  /\ lastOp = "reset" =>
       ( /\ getState(cb) = "CLOSED"
         /\ getStats(cb).failureCount = 0
         /\ getStats(cb).successCount = 0 )
  /\ lastOp = "open" => getState(cb) = "OPEN"

\* C9: totalRequests counts the calls that invoked their operation, and
\* totalSuccesses + totalFailures counts those of them that have completed,
\* so the three agree when no call is in flight; none of the totals ever
\* decreases.
C9_TotalsConsistent ==
  /\ [] ( /\ cb.stats.totalRequests = invoked
          /\ cb.stats.totalSuccesses + cb.stats.totalFailures = completed
          /\ completed + Len(inflight) = invoked
          /\ NoneInFlight =>
               cb.stats.totalRequests =
                 cb.stats.totalSuccesses + cb.stats.totalFailures )
  /\ [][ /\ cb'.stats.totalRequests >= cb.stats.totalRequests
         /\ cb'.stats.totalSuccesses >= cb.stats.totalSuccesses
         /\ cb'.stats.totalFailures >= cb.stats.totalFailures ]_vars

C9_Witness ==
  /\ NoneInFlight
  /\ adminOps = MaxAdmin
  /\ cb.stats.totalSuccesses > 0
  /\ cb.stats.totalFailures > 0
  /\ cb.stats.totalRequests = cb.stats.totalSuccesses + cb.stats.totalFailures


\* ----------------------------------------------------- cache: properties

C11_EvictsOneOldest ==
  [][ setCall'.key # "-" =>
        LET k == setCall'.key
            n == Len(cache)
        IN IF MapHas(cache, k)
           THEN /\ Len(cache') = n
                /\ \A i \in 1..n :
                     IF cache[i].key = k THEN cache'[i].key = k
                     ELSE cache'[i] = cache[i]
           ELSE IF n = maxSize
                THEN /\ Len(cache') = maxSize
                     /\ cache'[maxSize].key = k
                     /\ \E i \in 1..n :
                          /\ \A l \in 1..n :
                               cache[i].expiresAt <= cache[l].expiresAt
                          /\ \A l \in 1..(i - 1) :
                               cache[l].expiresAt > cache[i].expiresAt
                          /\ SubSeq(cache', 1, maxSize - 1) = RemoveAt(cache, i)
                          /\ setCall'.evicted = cache[i].key
                ELSE /\ n < maxSize
                     /\ SubSeq(cache', 1, n) = cache
                     /\ cache'[n + 1].key = k ]_vars

\* C12: a get() adds one to exactly one of hits and misses: to hits when the
\* key is stored and not expired, to misses when it is not stored or is
\* expired; no other step changes hits or misses; getHitRate() is
\* hits / (hits + misses), and 0 when both are 0.
C12_GetCountsHitOrMiss ==
  /\ [][ \A k \in Keys :
           cacheOp' = [op |-> "get", key |-> k] =>
             /\ cacheStats'.hits + cacheStats'.misses =
                  cacheStats.hits + cacheStats.misses + 1
             /\ cacheStats'.hits \in {cacheStats.hits, cacheStats.hits + 1}
             /\ (~MapHas(cache, k) => cacheStats'.misses = cacheStats.misses + 1)
             /\ (MapHas(cache, k) =>
                   /\ (now < MapGet(cache, k).expiresAt =>
                         cacheStats'.hits = cacheStats.hits + 1)
                   /\ (now > MapGet(cache, k).expiresAt =>
                         cacheStats'.misses = cacheStats.misses + 1)) ]_vars
  /\ [][ cacheOp'.op # "get" =>
           /\ cacheStats'.hits = cacheStats.hits
           /\ cacheStats'.misses = cacheStats.misses ]_vars
  /\ [] ( /\ getHitRate(cacheStats).num * (cacheStats.hits + cacheStats.misses)
               = cacheStats.hits * getHitRate(cacheStats).den
          /\ (cacheStats.hits + cacheStats.misses = 0 =>
                getHitRate(cacheStats).num = 0) )

C12_Witness ==
  \E k \in Keys :
    /\ cacheOp = [op |-> "get", key |-> k]
    /\ cacheRet = NULL
    /\ lastSet[k] # NoSet
    /\ now > lastSet[k].deadline
    /\ cacheStats.misses = 1
    /\ cacheStats.hits = 1
    /\ getHitRate(cacheStats) = [num |-> 1, den |-> 2]

\* C13: right after clear() the map is empty and getStats() is
\* {hits: 0, misses: 0, size: 0}.
C13_ClearResetsStats ==
  cacheOp.op = "clear" =>
    /\ Len(cache) = 0
    /\ cacheStats = [hits |-> 0, misses |-> 0, size |-> 0]

\* C14: the ttl argument of set() is in seconds like the default TTL: right
\* after set(k, v, t) with t equal to the configured default TTL, the entry
\* expires when an entry set with no ttl would, at now + t seconds.
C14_TTLArgumentInSeconds ==
  (setCall.key # "-" /\ setCall.ttl = DefaultTTLSeconds) =>
    MapGet(cache, setCall.key).expiresAt = now + DefaultTTLSeconds * MsPerSec

\* C15: with maxRequests >= 1, the n-th check() of an identifier in one
\* window (the first being the one made with no entry, or after the previous
\* window has elapsed) succeeds with remaining = maxRequests - n when
\* n <= maxRequests, and fails with remaining = 0 when n > maxRequests.
C15_WindowQuota ==
  \A id \in Ids :
    (rlOp = [op |-> "check", id |-> id] /\ maxRequests >= 1) =>
      IF win[id].calls <= maxRequests
      THEN rlRet.success /\ rlRet.remaining = maxRequests - win[id].calls
      ELSE ~rlRet.success /\ rlRet.remaining = 0

C15_Witness ==
  \E id \in Ids :
    /\ rlOp = [op |-> "check", id |-> id]
    /\ maxRequests = MaxLimit
    /\ win[id].start > windowMs
    /\ win[id].calls = maxRequests + 1
    /\ ~rlRet.success
    /\ rlRet.remaining = 0

\* C16: a check(a), reset(a) or getStatus(a) leaves the entry of every other
\* identifier as it was, and a checkIpRateLimit(a) or resetIpRateLimit(a)
\* leaves the entry of every other IP address as it was.
C16_IdentifiersIsolated ==
  [][ /\ \A a \in Ids :
           (rlOp'.id = a /\ rlOp'.op \in {"check", "reset", "getStatus"}) =>
             /\ \A b \in Ids \ {a} : store'[b] = store[b]
             /\ ipLoginAttempts' = ipLoginAttempts
      /\ \A a \in Ips :
           (rlOp'.id = a /\ rlOp'.op \in {"checkIp", "resetIp"}) =>
             /\ \A b \in Ips \ {a} : ipLoginAttempts'[b] = ipLoginAttempts[b]
             /\ store' = store ]_vars

C16_Witness ==
  \E a, b \in Ids, x, y \in Ips :
    /\ a # b
    /\ x # y
    /\ rlOp = [op |-> "reset", id |-> a]
    /\ store[a] = NoEntry
    /\ store[b] # NoEntry
    /\ store[b].count > maxRequests
    /\ ipLoginAttempts[x] = NoEntry
    /\ ipLoginAttempts[y] # NoEntry

\* C17: getStatus() of an identifier whose entry has a resetTime in the past
\* returns undefined.
C17_ExpiredEntryAbsent ==
  \A id \in Ids :
    ( /\ rlOp = [op |-> "getStatus", id |-> id]
      /\ store[id] # NoEntry
      /\ store[id].resetTime < now ) => rlStatus = NoEntry

\* C18: right after reset() the identifier has no entry; the first check() of
\* an identifier after a reset(), blocked or not when it was reset, succeeds
\* with remaining = maxRequests - 1 and opens a window that ends at
\* now + windowMs.
C18_ResetForgives ==
  \A id \in Ids :
    /\ rlOp = [op |-> "reset", id |-> id] => store[id] = NoEntry
    /\ ( /\ rlOp = [op |-> "check", id |-> id]
         /\ afterReset[id] \in {"first", "firstBlocked"} ) =>
           /\ rlRet = [success |-> TRUE, remaining |-> maxRequests - 1,
                       resetTime |-> now + windowMs]
           /\ store[id] = [count |-> 1, resetTime |-> now + windowMs]

C18_Witness ==
  \E id \in Ids :
    /\ rlOp = [op |-> "check", id |-> id]
    /\ afterReset[id] = "firstBlocked"
    /\ maxRequests >= 1
    /\ rlRet.success
    /\ store[id].resetTime = now + windowMs
    /\ now > 0

\* C19 as stated: the successful check() calls of one identifier in an
\* interval of length windowMs, with no reset() in it, are at most
\* 2 * maxRequests.
C19_BurstAtMostTwiceLimit ==
  \A id \in Ids : BurstCount(id) <= 2 * maxRequests

\* C19 amended: with maxRequests >= 1 they are at most 2 * maxRequests - 1,
\* the first success of a window and the first of the next one being more
\* than windowMs apart.
C19_BurstBelowTwiceLimit ==
  \A id \in Ids : maxRequests >= 1 => BurstCount(id) <= 2 * maxRequests - 1

C19_Witness ==
  \E id \in Ids :
    /\ maxRequests = MaxLimit
    /\ BurstCount(id) = 2 * maxRequests - 1
    /\ recent[id][0] = maxRequests
    /\ recent[id][windowMs] = maxRequests - 1
    /\ store[id].count = maxRequests

\* C20: a recordFailedLoginAttempt() on the registered account that writes
\* failedLoginAttempts = maxAttempts also writes lockoutUntil =
\* now + lockoutDuration and returns isLocked = true, remainingAttempts = 0;
\* one that writes fewer than maxAttempts writes lockoutUntil = null and returns
\* isLocked = false.
C20_LocksAtMaxAttempts ==
  (lkRet.op = "record" /\ lkRet.email \in Registered) =>
    LET currentAttempts == lkRet.read + 1
    IN /\ acct.failedLoginAttempts = currentAttempts
       /\ currentAttempts = maxAttempts =>
            /\ acct.lockoutUntil = now + lockoutDuration
            /\ lkRet.isLocked
            /\ lkRet.remainingAttempts = 0
            /\ lkRet.lockoutUntil = now + lockoutDuration
       /\ currentAttempts < maxAttempts =>
            /\ acct.lockoutUntil = NULL
            /\ ~lkRet.isLocked
            /\ lkRet.lockoutUntil = NULL

C20_Witness ==
  /\ lkRet.op = "record"
  /\ lkRet.email \in Registered
  /\ lkRet.read = maxAttempts - 1
  /\ lkRet.isLocked
  /\ acct = [failedLoginAttempts |-> maxAttempts,
             lockoutUntil |-> now + lockoutDuration]
  /\ now > 0

C22_LazyResetFullAllowance ==
  ( /\ lkRet.op = "check"
    /\ lkRet.readUntil # NULL
    /\ lkRet.readUntil <= now ) =>
      /\ acct = [failedLoginAttempts |-> 0, lockoutUntil |-> NULL]
      /\ ~lkRet.isLocked
      /\ lkRet.lockoutUntil = NULL
      /\ lkRet.remainingAttempts = maxAttempts

\* C23: in every persisted state, under every interleaving of the reads and
\* updates of the three operations, lockoutUntil non-null implies
\* failedLoginAttempts >= maxAttempts, and failedLoginAttempts >= 0.
C23_LockedImpliesMaxAttempts ==
  /\ acct.failedLoginAttempts >= 0
  /\ acct.lockoutUntil # NULL => acct.failedLoginAttempts >= maxAttempts

C23_Witness ==
  \E c, d \in Callers :
    /\ c # d
    /\ acct.lockoutUntil # NULL
    /\ acct.failedLoginAttempts = maxAttempts
    /\ pending[c].op = "record"
    /\ pending[c].user.found
    /\ pending[c].user.failedLoginAttempts < acct.failedLoginAttempts
    /\ pending[d].op = "check"
    /\ pending[d].user.lockoutUntil = NULL

\* C24: resetFailedLoginAttempts() leaves failedLoginAttempts = 0 and
\* lockoutUntil = null whatever the record was, and an authorize() call that
\* returns the user has made this reset.
C24_SuccessResets ==
  authRet.outcome = "user" =>
    /\ passwordsMatch(authRet.password)
    /\ acct = [failedLoginAttempts |-> 0, lockoutUntil |-> NULL]

C24_Witness ==
  /\ authRet.outcome = "user"
  /\ authRet.attemptsBefore >= maxAttempts
  /\ authRet.untilBefore # NULL
  /\ authRet.untilBefore > now
  /\ acct.failedLoginAttempts = 0

\* C25: a failed login on the registered account ends as one on an e-mail
\* with no account does: authorize() returns null and
\* recordFailedLoginAttempt() returns the status it returns for a missing user.
C25_FailuresIndistinguishable ==
  ( /\ authRet.outcome # "none"
    /\ authRet.email \in Registered
    /\ ~passwordsMatch(authRet.password) ) =>
      /\ authRet.outcome = "null"
      /\ authRet.status = recordFailedLoginAttempt(NoUser, now).ret

\* C26: a login attempt is at its user lookup and password comparison only
\* when checkIpRateLimit() has counted and allowed an attempt and
\* checkAccountLockout() has returned not locked.
C26_BothLimitersPassed ==
  \A s \in Sessions :
    sess[s].pc = "verifying" =>
      \E ip \in Ips :
        /\ ipLoginAttempts[ip] # NoEntry
        /\ ipLoginAttempts[ip].count <= ipMaxAttempts

C28_ShutdownIdempotent ==
  [][/\ isShuttingDown => isShuttingDown'
     /\ (sdOp'.op = "shutdown")
          => /\ ~isShuttingDown
             /\ isShuttingDown'
             /\ signal' = sdOp'.arg
             /\ started' = IF handlers = <<>> THEN <<>> ELSE <<handlers[1].name>>
     /\ (sdOp'.op = "ignored")
          => /\ isShuttingDown
             /\ UNCHANGED <<sdPc, loopArr, idx, startAt, results, started,
                            signal, exitCode, flushed>>
     /\ Len(started') <= Len(loopArr')
     /\ started' # started => started' = Append(started, loopArr'[idx'].name)]_vars

\* a trigger of another signal kind was ignored while a handler was running
C28_Witness ==
  /\ sdOp.op = "ignored"
  /\ sdOp.arg # signal
  /\ sdPc = "running"
  /\ Len(started) = 1
  /\ Len(loopArr) = 2

\* C29: handlers are invoked one at a time in registration order: the array
\* iterated is the registry as it stood at the trigger, the handlers invoked
\* so far are a prefix of it, and a handler is invoked only when every one
\* before it has its result, having resolved, rejected or gone beyond its
\* own timeout, which is defaultTimeout for a handler that gives none. The
\* loop is left for the flush only when every handler of the array was
\* invoked, whatever number of them rejected or timed out.
C29_SequentialIsolated ==
  [][/\ (sdOp'.op = "shutdown") => loopArr' = handlers
     /\ Len(started') <= Len(loopArr')
     /\ started' = SubSeq(NamesOf(loopArr'), 1, Len(started'))
     /\ started' # started => /\ Len(results') = Len(started)
                              /\ Len(started') = Len(started) + 1
     /\ Len(results') <= Len(started')
     /\ (sdOp'.op = "timeout")
          => /\ ~results'[Len(results')].success
             /\ now >= startAt + (IF loopArr[idx].timeout = 0
                                  THEN defaultTimeout
                                  ELSE loopArr[idx].timeout)
     /\ (sdOp'.op \in {"resolved", "rejected", "timeout"})
          => /\ Len(results') = Len(results) + 1
             /\ idx < Len(loopArr) => /\ sdPc' = "running"
                                      /\ started' = Append(started, loopArr[idx + 1].name)
     /\ (sdPc' = "flushing") => Len(started') = Len(loopArr')]_vars

\* the first handler gave no timeout, went beyond the default one, and the
\* second handler was invoked after it
C29_Witness ==
  /\ sdOp.op = "timeout"
  /\ sdPc = "running"
  /\ idx = 2
  /\ loopArr[1].timeout = 0
  /\ results = <<[name |-> loopArr[1].name, success |-> FALSE,
                  error |-> "Timeout"]>>
  /\ started = NamesOf(loopArr)

\* C30: once a shutdown has begun, the logs are flushed only when every
\* handler of the iterated array has its result, the process exits only
\* after the flush, and its exit code is 0 exactly when the flush did not
\* throw, handler failures and timeouts included.
C30_ExitOnlyAfterFlush ==
  /\ flushed # "no" => /\ isShuttingDown
                       /\ Len(results) = Len(loopArr)
  /\ (isShuttingDown /\ sdPc = "exited")
       => /\ flushed # "no"
          /\ exitCode = (IF flushed = "ok" THEN 0 ELSE 1)

\* C31: once a shutdown has begun the process eventually exits, whether or
\* not the handlers' promises ever settle: the wait on each handler ends, at
\* the latest, when its timer fires.
C31_ShutdownTerminates == isShuttingDown ~> (sdPc = "exited")

\* the process exited after a shutdown in which no handler ever settled
C31_Witness ==
  /\ sdPc = "exited"
  /\ sdOp.op = "exit"
  /\ Len(results) = 2
  /\ \A i \in 1..Len(results) : results[i].error = "Timeout"

\* C32: no two entries of the registry have the same name, and no handler
\* name is invoked twice during a shutdown.
C32_UniqueNamesRunOnce ==
  /\ \A i, j \in 1..Len(handlers) :
       i # j => handlers[i].name # handlers[j].name
  /\ \A i, j \in 1..Len(started) : i # j => started[i] # started[j]

\* C33: a wrapper called during a shutdown never invokes the wrapped
\* function, yields the result of onShutdown when that option is given and
\* fails with 'Shutdown in progress' when it is not; called before a
\* shutdown it invokes the wrapped function once and yields its result.
C33_WrappersGuard ==
  wrapRet.kind # "none" =>
    IF wrapRet.shutting
    THEN /\ wrapRet.fnCalls = 0
         /\ wrapRet.onShutdown # "none"
              => /\ wrapRet.how \in {"returns", "resolves"}
                 /\ wrapRet.value = wrapRet.onShutdown
         /\ wrapRet.onShutdown = "none"
              => /\ wrapRet.how \in {"throws", "returnsRejectedPromise",
                                     "rejects"}
                 /\ wrapRet.value = "Shutdown in progress"
    ELSE /\ wrapRet.fnCalls = 1
         /\ wrapRet.how \in {"returns", "resolves"}
         /\ wrapRet.value = "result"

RECURSIVE AllRedacted(_)
AllRedacted(v) ==
  CASE v.t = "leaf" -> TRUE
    [] v.t = "arr" -> \A i \in DOMAIN v.items : AllRedacted(v.items[i])
    [] v.t = "obj" -> \A k \in DOMAIN v.f :
                        IF isSensitive(k) THEN v.f[k] = REDACTED
                        ELSE AllRedacted(v.f[k])

RECURSIVE SameElsewhere(_, _)
SameElsewhere(out, in) ==
  CASE in.t = "leaf" -> out = in
    [] in.t = "arr" -> /\ out.t = "arr"
                       /\ DOMAIN out.items = DOMAIN in.items
                       /\ \A i \in DOMAIN in.items :
                            SameElsewhere(out.items[i], in.items[i])
    [] in.t = "obj" -> /\ out.t = "obj"
                       /\ DOMAIN out.f = DOMAIN in.f
                       /\ \A k \in DOMAIN in.f :
                            isSensitive(k) \/ SameElsewhere(out.f[k], in.f[k])

\* C34: in the object a log call emits, made of the logger's context and
\* the call's data, the value under every sensitive key is the redaction
\* marker at every depth of objects and arrays, and everything under the
\* other keys is as it was given.
C34_EmittedRedacted ==
  logCall.op # "none" =>
    /\ AllRedacted(emitted)
    /\ SameElsewhere(emitted,
                     IF logCall.op = "info"
                     THEN spread(logCall.context, logCall.data)
                     ELSE spread(emitError(logCall.context, logCall.error,
                                           Leaf("undefined")),
                                 logCall.data))

\* C35: when a lockout has expired and the login flow locks the account
\* again, the new lockout lasts strictly longer than the expired one.
C35_SecondLockoutLonger ==
  (authRet.outcome = "lockedNow" /\ expiredLock > 0)
    => lockedFor > expiredLock

\* C36: a checkAccountLockout() that found the account locked until u
\* returns isLocked = TRUE with remainingAttempts = 0 at every time before u,
\* and at every time from u on returns isLocked = FALSE and leaves the
\* account with no lockout.
C36_AutomaticUnlock ==
  (lkRet.op = "check" /\ lkRet.readUntil # NULL)
    => IF now < lkRet.readUntil
       THEN /\ lkRet.isLocked
            /\ lkRet.remainingAttempts = 0
            /\ lkRet.lockoutUntil = lkRet.readUntil
       ELSE /\ ~lkRet.isLocked
            /\ acct.lockoutUntil = NULL

\* a check made exactly when lockoutUntil was reached unlocked the account
C36_Witness ==
  /\ lkRet.op = "check"
  /\ lkRet.readUntil = now
  /\ ~lkRet.isLocked
  /\ acct.lockoutUntil = NULL

\* C37: in every state the snapshot getStats() returns agrees with the live
\* breaker: its state is getState() and its failureCount and successCount
\* are the live counters.
C37_SnapshotMatchesLive ==
  /\ getStats(cb).state = getState(cb)
  /\ getStats(cb).failureCount = cb.failureCount
  /\ getStats(cb).successCount = cb.successCount

\* C38: a call that was started while the breaker was CLOSED and completes
\* while it is HALF_OPEN leaves the breaker HALF_OPEN with its successCount
\* as it was: it neither counts towards closing the breaker, nor closes it,
\* nor reopens it. (The step is one that completes a call when every call in
\* flight was started under CLOSED.)
C38_StaleCallIgnored ==
  [][(/\ cb.state = "HALF_OPEN"
      /\ Len(inflight') < Len(inflight)
      /\ \A i \in 1..Len(inflight) : inflight[i].seen = "CLOSED")
       => /\ cb'.state = "HALF_OPEN"
          /\ cb'.successCount = cb.successCount]_vars

\* C39: no recorded failure is lost: every recordFailedLoginAttempt() on an
\* existing account leaves the persisted failedLoginAttempts one higher than
\* it was just before its write, so that N interleaved calls raise it by N.
C39_NoLostFailure ==
  [][(lkRet'.op = "record" /\ lkRet'.email \in Registered)
       => acct'.failedLoginAttempts = acct.failedLoginAttempts + 1]_vars

\* C40: after every cache operation (get, set, delete, has, clear, sweep)
\* stats.size equals the number of entries stored in the map, and the number
\* of stored entries never exceeds maxSize, whatever the keys.
C40_SizeBookkeeping ==
  /\ cacheStats.size = Len(cache)
  /\ Len(cache) <= maxSize

====
